---- MODULE Spec2Model ----
(***************************************************************************)
(* gulp-order-bemdeps: reordering of a stream of files by the dependencies *)
(* declared in deps.js files and implied by BEM naming.                    *)
(*                                                                         *)
(* The main specification, Spec, is the TreeNode/BFS version of the plugin *)
(* (index.js, lib/tree-node.js, lib/bfs-output-tree.js).  SpecTopological  *)
(* is the later version that sorts with the topological-sort package,      *)
(* SpecMap the earlier version whose graph is a Map of Sets walked by a    *)
(* plain BFS, SpecWeight the version that sorts the files by the weights   *)
(* of their stems, and SpecClauses the main version run on one deps.js     *)
(* file whose contents range over the shapes of a clause.                  *)
(*                                                                         *)
(* A string is a sequence of one-character strings, so that formatting and *)
(* parsing of stems are computed, not assumed.                             *)
(***************************************************************************)
EXTENDS Integers, Sequences, FiniteSets, TLC

(***************************************************************************)
(* Bounds of the model.                                                    *)
(***************************************************************************)
\* deps.js files delivered by the deps stream in one run
MaxDeps == 2
\* files written to the input stream in one run
MaxFiles == 3

(***************************************************************************)
(* JavaScript values.                                                      *)
(***************************************************************************)
\* the value undefined (a missing property)
Undefined == <<"undefined">>
\* the key null of hashNodes: the virtual root node
Null == <<"null">>
\* the empty string
EmptyStr == <<>>

\* what a template literal `${x}` or string concatenation prints for x
ToStr(x) == IF x = Undefined THEN <<"u", "n", "d", "e", "f", "i", "n", "e", "d">> ELSE x

\* if (x): a string is truthy unless it is missing or empty
Truthy(x) == x # Undefined /\ x # Null /\ x # EmptyStr

\* insertion into a JavaScript Set or Map, which keeps insertion order
SetAdd(seq, x) == IF \E i \in 1..Len(seq) : seq[i] = x THEN seq ELSE Append(seq, x)

RECURSIVE Dedup(_)
\* new Set(array): the elements in order of first occurrence
Dedup(seq) == IF seq = <<>> THEN <<>> ELSE SetAdd(Dedup(SubSeq(seq, 1, Len(seq) - 1)), seq[Len(seq)])

RECURSIVE FilterBoolean(_)
\* array.filter(Boolean) on an array of strings
FilterBoolean(seq) ==
    IF seq = <<>> THEN <<>>
    ELSE (IF Truthy(Head(seq)) THEN <<Head(seq)>> ELSE <<>>) \o FilterBoolean(Tail(seq))

Range(seq) == {seq[i] : i \in 1..Len(seq)}

(***************************************************************************)
(* parse-bem-identifier (an external package): the stem is split at "__"   *)
(* into the block part and the element part, and each part at "_" into a   *)
(* name, a modifier and a modifier value.  The keys of the result are the  *)
(* ones index.js lists in BEM_NAMING_PARSED_KEYS.                          *)
(***************************************************************************)
RECURSIVE SplitSingle(_, _, _, _)
\* s.split('_'), from position i, cur the piece being read
SplitSingle(s, i, cur, acc) ==
    IF i > Len(s) THEN Append(acc, cur)
    ELSE IF s[i] = "_" THEN SplitSingle(s, i + 1, <<>>, Append(acc, cur))
    ELSE SplitSingle(s, i + 1, Append(cur, s[i]), acc)

RECURSIVE SplitDouble(_, _, _, _)
\* s.split('__'), from position i, cur the piece being read
SplitDouble(s, i, cur, acc) ==
    IF i > Len(s) THEN Append(acc, cur)
    ELSE IF s[i] = "_" /\ i + 1 <= Len(s) /\ s[i + 1] = "_"
         THEN SplitDouble(s, i + 2, <<>>, Append(acc, cur))
    ELSE SplitDouble(s, i + 1, Append(cur, s[i]), acc)

PartAt(parts, i) == IF i <= Len(parts) THEN parts[i] ELSE Undefined

bemNamingParser(stem) ==
    LET halves == SplitDouble(stem, 1, <<>>, <<>>)
        blockPart == SplitSingle(halves[1], 1, <<>>, <<>>)
        elemPart == IF Len(halves) >= 2 THEN SplitSingle(halves[2], 1, <<>>, <<>>) ELSE <<>>
    IN  [block |-> PartAt(blockPart, 1),
         mod |-> PartAt(blockPart, 2),
         modVal |-> PartAt(blockPart, 3),
         elem |-> PartAt(elemPart, 1),
         elemMod |-> PartAt(elemPart, 2),
         elemVal |-> PartAt(elemPart, 3),
         elemModVal |-> Undefined]

(***************************************************************************)
(* Naming helpers of index.js and lib/bem-naming-to-classname.js.          *)
(***************************************************************************)
BEM_NAMING_PARSED_KEYS == <<"block", "mod", "modVal", "elem", "elemMod", "elemVal">>

isBlockBemNaming(bemNaming) ==
    \A i \in 1..Len(BEM_NAMING_PARSED_KEYS) :
        LET key == BEM_NAMING_PARSED_KEYS[i]
        IN  IF key = "block" THEN bemNaming[key] # Undefined ELSE bemNaming[key] = Undefined

\* the naming validation: some parsed key is the empty string
isBadNaming(bemNaming) ==
    \E i \in 1..Len(BEM_NAMING_PARSED_KEYS) : bemNaming[BEM_NAMING_PARSED_KEYS[i]] = EmptyStr

bemNamingToClassname(bemNaming) ==
    ToStr(bemNaming.block)
        \o (IF Truthy(bemNaming.mod) THEN <<"_">> \o bemNaming.mod ELSE <<>>)
        \o (IF Truthy(bemNaming.modVal) THEN <<"_">> \o bemNaming.modVal ELSE <<>>)
        \o (IF Truthy(bemNaming.elem) THEN <<"_", "_">> \o bemNaming.elem ELSE <<>>)
        \o (IF Truthy(bemNaming.elemMod) THEN <<"_">> \o bemNaming.elemMod ELSE <<>>)
        \o (IF Truthy(bemNaming.elemModVal) THEN <<"_">> \o bemNaming.elemModVal ELSE <<>>)

\* the if/else-if chain of deletes: the most specific facet that is set goes
DeleteFacet(bemNaming) ==
    IF Truthy(bemNaming.elemModVal) THEN [bemNaming EXCEPT !.elemModVal = Undefined]
    ELSE IF Truthy(bemNaming.elemMod) THEN [bemNaming EXCEPT !.elemMod = Undefined]
    ELSE IF Truthy(bemNaming.elem) THEN [bemNaming EXCEPT !.elem = Undefined]
    ELSE IF Truthy(bemNaming.modVal) THEN [bemNaming EXCEPT !.modVal = Undefined]
    ELSE IF Truthy(bemNaming.mod) THEN [bemNaming EXCEPT !.mod = Undefined]
    ELSE bemNaming

(***************************************************************************)
(* Contents of a deps.js file.  A JavaScript array is a record of kind     *)
(* "array" with its items; a clause is a record of kind "must" (it has a   *)
(* mustDeps property) or "leaf"; a mods/elemMods object is the sequence of *)
(* its entries in key order.                                               *)
(***************************************************************************)
JsArray(items) == [kind |-> "array", items |-> items]

Must(deps) == [kind |-> "must", tech |-> FALSE, noDeps |-> FALSE, mustDeps |-> deps]

Leaf(block) ==
    [kind |-> "leaf", tech |-> FALSE, noDeps |-> FALSE, block |-> block,
     mod |-> Undefined, val |-> Undefined, elem |-> Undefined,
     elemModsType |-> "undefined", elemMods |-> <<>>,
     modsType |-> "undefined", mods |-> <<>>,
     elemsType |-> "undefined", elems |-> <<>>]

\* an entry name: value of a mods or elemMods object; vtype is "boolean",
\* "scalar" (val) or "array" (vals)
Entry(name, vtype, val, vals) == [name |-> name, vtype |-> vtype, val |-> val, vals |-> vals]

(***************************************************************************)
(* flattenDepsJS and parseDependencies (index.js).                         *)
(***************************************************************************)
RECURSIVE ModsObjectStemsNoBare(_, _, _)
\* ModsObjectStems that leaves the bare modifier out when a value is given
ModsObjectStemsNoBare(dependencyStem, mods, i) ==
    IF i > Len(mods) THEN <<>>
    ELSE LET modName == mods[i].name
             named == ToStr(dependencyStem) \o <<"_">> \o modName
             here == IF mods[i].vtype = "array"
                     THEN [k \in 1..Len(mods[i].vals) |-> named \o <<"_">> \o mods[i].vals[k]]
                     ELSE IF mods[i].vtype = "boolean" THEN <<named>>
                     ELSE <<named \o <<"_">> \o ToStr(mods[i].val)>>
         IN  here \o ModsObjectStemsNoBare(dependencyStem, mods, i + 1)

RECURSIVE ModsObjectStems(_, _, _)
\* the mods object branch: Object.keys(dependency.mods).forEach(...)
ModsObjectStems(dependencyStem, mods, i) ==
    IF i > Len(mods) THEN <<>>
    ELSE LET modName == mods[i].name
             named == ToStr(dependencyStem) \o <<"_">> \o modName
             here == IF mods[i].vtype = "array"
                     THEN [k \in 1..Len(mods[i].vals) |-> named \o <<"_">> \o mods[i].vals[k]]
                     ELSE IF mods[i].vtype = "boolean" THEN <<named>>
                     ELSE <<named \o <<"_">> \o ToStr(mods[i].val), named>>
         IN  here \o ModsObjectStems(dependencyStem, mods, i + 1)

RECURSIVE ElemModsStemsFinalOnly(_, _, _, _)
\* ElemModsStems that pushes the final identifier only
ElemModsStemsFinalOnly(dependencyStem, elemMods, i, output) ==
    IF i > Len(elemMods) THEN Append(output, dependencyStem)
    ELSE LET named == dependencyStem \o <<"_">> \o elemMods[i].name
         IN  ElemModsStemsFinalOnly(IF elemMods[i].vtype # "boolean"
                                       THEN named \o <<"_">> \o ToStr(elemMods[i].val)
                                       ELSE named,
                                    elemMods, i + 1, output)

RECURSIVE ElemModsStems(_, _, _, _)
\* the elemMods branch: dependencyStem grows over the entries, and is
\* pushed after each name and once more at the end
ElemModsStems(dependencyStem, elemMods, i, output) ==
    IF i > Len(elemMods) THEN Append(output, dependencyStem)
    ELSE LET named == dependencyStem \o <<"_">> \o elemMods[i].name
         IN  ElemModsStems(IF elemMods[i].vtype # "boolean"
                              THEN named \o <<"_">> \o ToStr(elemMods[i].val)
                              ELSE named,
                           elemMods, i + 1, Append(output, named))

\* LeafStems without the branch of the elems array
LeafStemsWithoutElems(dependency) ==
    LET block == dependency.block
    IN  IF dependency.modsType = "array"
        THEN [k \in 1..Len(dependency.mods) |-> ToStr(block) \o <<"_">> \o dependency.mods[k]]
        ELSE IF dependency.modsType = "object"
        THEN ModsObjectStems(block, dependency.mods, 1)
        ELSE LET withMod == IF Truthy(dependency.mod)
                            THEN ToStr(block) \o <<"_">> \o dependency.mod ELSE block
                 withVal == IF Truthy(dependency.val)
                            THEN ToStr(withMod) \o <<"_">> \o dependency.val ELSE withMod
             IN  IF Truthy(dependency.elem)
                 THEN LET withElem == ToStr(withVal) \o <<"_", "_">> \o dependency.elem
                      IN  IF dependency.elemModsType = "object"
                          THEN ElemModsStems(withElem, dependency.elemMods, 1, <<>>)
                          ELSE <<withElem>>
                 ELSE <<withVal>>

\* what one leaf clause pushes to output
LeafStems(dependency) ==
    LET block == dependency.block
    IN  IF dependency.modsType = "array"
        THEN [k \in 1..Len(dependency.mods) |-> ToStr(block) \o <<"_">> \o dependency.mods[k]]
        ELSE IF dependency.modsType = "object"
        THEN ModsObjectStems(block, dependency.mods, 1)
        ELSE IF dependency.elemsType = "array"
        THEN [k \in 1..Len(dependency.elems) |-> ToStr(block) \o <<"_", "_">> \o dependency.elems[k]]
        ELSE LET withMod == IF Truthy(dependency.mod)
                            THEN ToStr(block) \o <<"_">> \o dependency.mod ELSE block
                 withVal == IF Truthy(dependency.val)
                            THEN ToStr(withMod) \o <<"_">> \o dependency.val ELSE withMod
             IN  IF Truthy(dependency.elem)
                 THEN LET withElem == ToStr(withVal) \o <<"_", "_">> \o dependency.elem
                      IN  IF dependency.elemModsType = "object"
                          THEN ElemModsStems(withElem, dependency.elemMods, 1, <<>>)
                          ELSE <<withElem>>
                 ELSE <<withVal>>

RECURSIVE flattenDepsJS(_)
RECURSIVE FlattenEach(_, _)
\* deps.forEach(dependency => ...), from item i
FlattenEach(list, i) ==
    IF i > Len(list) THEN <<>>
    ELSE LET dependency == list[i]
             here == IF dependency.tech \/ dependency.noDeps THEN <<>>
                     ELSE IF dependency.kind = "must" THEN flattenDepsJS(dependency.mustDeps)
                     ELSE LeafStems(dependency)
         IN  here \o FlattenEach(list, i + 1)

flattenDepsJS(deps) == FlattenEach(IF deps.kind = "array" THEN deps.items ELSE <<deps>>, 1)

\* contents of a deps.js file: either they evaluate to a value, or
\* vm.runInThisContext / flattenDepsJS throws on them
Evaluates(value) == [throws |-> FALSE, value |-> value]
Throws == [throws |-> TRUE]

\* parseDependencies without .filter(Boolean)
parseDependenciesUnfiltered(contents) == Dedup(flattenDepsJS(contents.value))

\* the Set parseDependencies returns, in insertion order
parseDependencies(contents) == Dedup(FilterBoolean(flattenDepsJS(contents.value)))

(***************************************************************************)
(* Vinyl files: a path is the stem followed by the extension (one token).  *)
(***************************************************************************)
CssFile(stem) == [path |-> stem \o <<".css">>]
DepsFile(stem, contents) == [path |-> stem \o <<".deps.js">>, contents |-> contents]

\* path.extname: the extension is the last token of the path
ExtName(filePath) == filePath[Len(filePath)]

\* getFileStem(filePath, ext): path.basename(filePath, ext || path.extname(filePath));
\* a call without ext is a call with ext = ""
getFileStem(filePath, ext) ==
    LET e == IF ext = "" THEN ExtName(filePath) ELSE ext
    IN  IF Len(filePath) > 1 /\ filePath[Len(filePath)] = e
        THEN SubSeq(filePath, 1, Len(filePath) - 1) ELSE filePath

(***************************************************************************)
(* lib/tree-node.js.  hashNodes is a Map from stem to TreeNode; here it is *)
(* the keys in insertion order, with each node's _dependencies (a set) and *)
(* _dependents (a Set, iterated in insertion order).                       *)
(***************************************************************************)
\* hashNodes right after `hashNodes.set(null, rootNode)`
NewHashNodes == [order |-> <<Null>>, parentNodes |-> (Null :> {}), childNodes |-> (Null :> <<>>)]

HashHas(hash, stem) == stem \in Range(hash.order)

\* LinkNodes where the new parent takes the place of the earlier ones
LinkNodesOverwrite(hash, stem, parentStem) ==
    [hash EXCEPT !.parentNodes[stem] = {parentStem},
                 !.childNodes[parentStem] = SetAdd(@, stem)]

\* LinkNodes without parent.addChildNode(node)
LinkNodesParentOnly(hash, stem, parentStem) ==
    [hash EXCEPT !.parentNodes[stem] = @ \cup {parentStem}]

\* node.addParentNode(parent); parent.addChildNode(node)
LinkNodes(hash, stem, parentStem) ==
    [hash EXCEPT !.parentNodes[stem] = @ \cup {parentStem},
                 !.childNodes[parentStem] = SetAdd(@, stem)]

\* ensureExists that does not link the new node to the root
ensureExistsUnlinked(hash, stem) ==
    IF HashHas(hash, stem) THEN hash
    ELSE [order |-> Append(hash.order, stem),
          parentNodes |-> hash.parentNodes @@ (stem :> {}),
          childNodes |-> hash.childNodes @@ (stem :> <<>>)]

ensureExists(hash, stem) ==
    IF HashHas(hash, stem) THEN hash
    ELSE LET added == [order |-> Append(hash.order, stem),
                       parentNodes |-> hash.parentNodes @@ (stem :> {}),
                       childNodes |-> hash.childNodes @@ (stem :> <<>>)]
         IN  IF Truthy(stem) THEN LinkNodes(added, stem, Null) ELSE added

(***************************************************************************)
(* Errors thrown in a run.                                                 *)
(***************************************************************************)
NoError == [type |-> "none", stem |-> Null]
\* PluginError `Invalid bem naming used: ${stem}`
InvalidNaming(stem) == [type |-> "InvalidNaming", stem |-> stem]
\* RangeError: Maximum call stack size exceeded
StackOverflow == [type |-> "RangeError", stem |-> Null]
\* whatever vm.runInThisContext or flattenDepsJS throws on a deps file
ContentsError == [type |-> "ContentsError", stem |-> Null]
\* the error of an 'error' event of the deps stream
StreamError == [type |-> "StreamError", stem |-> Null]
\* TypeError: Cannot read property 'emit' of undefined
EmitOfUndefined == [type |-> "TypeError", stem |-> Null]

(***************************************************************************)
(* combineDeps (index.js, TreeNode version).                               *)
(***************************************************************************)
RECURSIVE LinkDependencies(_, _, _, _)
\* for (let dependencyStem of stemDependencies) ...
LinkDependencies(hash, stem, stemDependencies, k) ==
    IF k > Len(stemDependencies) THEN hash
    ELSE LinkDependencies(
             LinkNodes(ensureExists(hash, stemDependencies[k]), stem, stemDependencies[k]),
             stem, stemDependencies, k + 1)

RECURSIVE CombineFrom(_, _, _)
\* for (let file of deps) ..., from file i
CombineFrom(hash, deps, i) ==
    IF i > Len(deps) THEN [error |-> NoError, hashNodes |-> hash]
    ELSE IF deps[i].contents.throws THEN [error |-> ContentsError, hashNodes |-> hash]
    ELSE LET stem == getFileStem(deps[i].path, ".deps.js")
             parsed == parseDependencies(deps[i].contents)
             stemDependencies == IF Len(parsed) = 0 THEN <<Null>> ELSE parsed
         IN  CombineFrom(LinkDependencies(ensureExists(hash, stem), stem, stemDependencies, 1),
                         deps, i + 1)

combineDeps(deps) == CombineFrom(NewHashNodes, deps, 1)

(***************************************************************************)
(* addTreeNodeDependency, addRecursiveNodeDependencies,                    *)
(* addBasicDependencies (index.js, TreeNode version).                      *)
(***************************************************************************)
\* addTreeNodeDependency that adds the node and leaves the dependency out
addTreeNodeOnly(hashNodes, stem, dependency) == ensureExists(hashNodes, stem)

addTreeNodeDependency(hashNodes, stem, dependency) ==
    LET hash == ensureExists(hashNodes, stem)
    IN  IF Truthy(dependency)
        THEN LinkNodes(ensureExists(hash, dependency), stem, dependency)
        ELSE hash

RECURSIVE addRecursiveNodeDependencies(_, _)
\* When no facet is left to delete and the naming is still not block-only,
\* the call repeats itself with the same arguments until the stack is full.
addRecursiveNodeDependencies(hashNodes, bemNaming) ==
    IF isBlockBemNaming(bemNaming)
    THEN [error |-> NoError,
          hashNodes |-> addTreeNodeDependency(hashNodes, bemNaming.block, Undefined)]
    ELSE LET stem == bemNamingToClassname(bemNaming)
             stripped == DeleteFacet(bemNaming)
             hash == addTreeNodeDependency(hashNodes, stem, bemNamingToClassname(stripped))
         IN  IF stripped = bemNaming
             THEN [error |-> StackOverflow, hashNodes |-> hash]
             ELSE addRecursiveNodeDependencies(hash, stripped)

RECURSIVE BasicFrom(_, _)
\* for (let [stem, node] of hashNodes) ..., from entry i; entries added
\* during the iteration are iterated too
BasicFrom(hashNodes, i) ==
    IF i > Len(hashNodes.order) THEN [error |-> NoError, hashNodes |-> hashNodes]
    ELSE LET stem == hashNodes.order[i]
         IN  IF stem = Null THEN BasicFrom(hashNodes, i + 1)
             ELSE LET bemNaming == bemNamingParser(stem)
                  IN  IF isBadNaming(bemNaming)
                      THEN [error |-> InvalidNaming(stem), hashNodes |-> hashNodes]
                      ELSE LET r == addRecursiveNodeDependencies(hashNodes, bemNaming)
                           IN  IF r.error # NoError THEN r
                               ELSE BasicFrom(r.hashNodes, i + 1)

addBasicDependencies(hashNodes) == BasicFrom(hashNodes, 1)

(***************************************************************************)
(* bfsOutputTree (lib/bfs-output-tree.js).  A file is its index in the     *)
(* array of input files.                                                   *)
(***************************************************************************)
\* filesHash.get(node): the last of `files` whose stem is the node's, 0 if none
FilesHashGet(inputFiles, files, stem) ==
    LET at == {k \in 1..Len(files) : getFileStem(inputFiles[files[k]].path, "") = stem}
    IN  IF at = {} THEN 0 ELSE files[CHOOSE k \in at : \A j \in at : j <= k]

\* the loop's state when it starts
BfsStart(output) == [processingQueue |-> <<Null>>, visited |-> {}, output |-> output]

\* BfsIteration without the test that every parent has been visited
BfsIterationAnyOrder(hashNodes, inputFiles, files, st) ==
    LET node == Head(st.processingQueue)
        rest == Tail(st.processingQueue)
        file == FilesHashGet(inputFiles, files, node)
    IN  IF node \in st.visited
        THEN [st EXCEPT !.processingQueue = rest]
        ELSE [processingQueue |-> rest \o hashNodes.childNodes[node],
              visited |-> st.visited \cup {node},
              output |-> IF node # Null /\ file # 0 THEN Append(st.output, file) ELSE st.output]

\* BfsIteration that does not go on from a node no input file stands for
BfsIterationFilesOnly(hashNodes, inputFiles, files, st) ==
    LET node == Head(st.processingQueue)
        rest == Tail(st.processingQueue)
        allParentsDone == \A parentNode \in hashNodes.parentNodes[node] : parentNode \in st.visited
        file == FilesHashGet(inputFiles, files, node)
    IN  IF node \in st.visited \/ ~allParentsDone
        THEN [st EXCEPT !.processingQueue = rest]
        ELSE [processingQueue |-> IF node = Null \/ file # 0
                                  THEN rest \o hashNodes.childNodes[node] ELSE rest,
              visited |-> st.visited \cup {node},
              output |-> IF node # Null /\ file # 0 THEN Append(st.output, file) ELSE st.output]

\* BfsIteration that marks a node whose parents are not done, and leaves it
BfsIterationMarksSkipped(hashNodes, inputFiles, files, st) ==
    LET node == Head(st.processingQueue)
        rest == Tail(st.processingQueue)
        allParentsDone == \A parentNode \in hashNodes.parentNodes[node] : parentNode \in st.visited
        file == FilesHashGet(inputFiles, files, node)
    IN  IF node \in st.visited
        THEN [st EXCEPT !.processingQueue = rest]
        ELSE IF ~allParentsDone
        THEN [st EXCEPT !.processingQueue = rest, !.visited = @ \cup {node}]
        ELSE [processingQueue |-> rest \o hashNodes.childNodes[node],
              visited |-> st.visited \cup {node},
              output |-> IF node # Null /\ file # 0 THEN Append(st.output, file) ELSE st.output]

\* one iteration of `while (processingQueue.length)`
BfsIteration(hashNodes, inputFiles, files, st) ==
    LET node == Head(st.processingQueue)
        rest == Tail(st.processingQueue)
        allParentsDone == \A parentNode \in hashNodes.parentNodes[node] : parentNode \in st.visited
        file == FilesHashGet(inputFiles, files, node)
    IN  IF node \in st.visited \/ ~allParentsDone
        THEN [st EXCEPT !.processingQueue = rest]
        ELSE [processingQueue |-> rest \o hashNodes.childNodes[node],
              visited |-> st.visited \cup {node},
              output |-> IF node # Null /\ file # 0 THEN Append(st.output, file) ELSE st.output]

RECURSIVE BfsLoop(_, _, _, _)
BfsLoop(hashNodes, inputFiles, files, st) ==
    IF st.processingQueue = <<>> THEN st
    ELSE BfsLoop(hashNodes, inputFiles, files, BfsIteration(hashNodes, inputFiles, files, st))

RECURSIVE BfsTrace(_, _, _, _)
\* the states of the loop, one before each iteration and the last one
BfsTrace(hashNodes, inputFiles, files, st) ==
    IF st.processingQueue = <<>> THEN <<st>>
    ELSE <<st>> \o BfsTrace(hashNodes, inputFiles, files,
                            BfsIteration(hashNodes, inputFiles, files, st))

bfsOutputTree(hashNodes, inputFiles, files, output) ==
    BfsLoop(hashNodes, inputFiles, files, BfsStart(output))

(***************************************************************************)
(* The callback of Promise.all(...).then in gulpOrderBemDeps.              *)
(***************************************************************************)
RECURSIVE FilterFromKeepsAll(_, _, _, _, _)
\* FilterFrom that pushes no file at once: every file stays for bfsOutputTree
FilterFromKeepsAll(hashNodes, inputFiles, i, kept, output) ==
    IF i > Len(inputFiles)
    THEN [error |-> NoError, hashNodes |-> hashNodes, files |-> kept, output |-> output]
    ELSE LET fileStem == getFileStem(inputFiles[i].path, "")
         IN  IF isBadNaming(bemNamingParser(fileStem))
             THEN [error |-> InvalidNaming(fileStem), hashNodes |-> hashNodes,
                   files |-> kept, output |-> output]
             ELSE FilterFromKeepsAll(ensureExists(hashNodes, fileStem), inputFiles, i + 1,
                                     Append(kept, i), output)

RECURSIVE FilterFrom(_, _, _, _, _)
\* files.filter(file => ...), from file i: kept are the files that stay,
\* output the files pushed at once
FilterFrom(hashNodes, inputFiles, i, kept, output) ==
    IF i > Len(inputFiles)
    THEN [error |-> NoError, hashNodes |-> hashNodes, files |-> kept, output |-> output]
    ELSE LET fileStem == getFileStem(inputFiles[i].path, "")
             bemNaming == bemNamingParser(fileStem)
         IN  IF isBadNaming(bemNaming)
             THEN [error |-> InvalidNaming(fileStem), hashNodes |-> hashNodes,
                   files |-> kept, output |-> output]
             ELSE IF isBlockBemNaming(bemNaming) /\ ~HashHas(hashNodes, bemNaming.block)
             THEN FilterFrom(hashNodes, inputFiles, i + 1, kept, Append(output, i))
             ELSE FilterFrom(ensureExists(hashNodes, fileStem), inputFiles, i + 1,
                             Append(kept, i), output)

\* the whole callback: the filter, addBasicDependencies, bfsOutputTree.
\* closes tells whether closeStreamCallback() is reached.
OrderFiles(combined, inputFiles) ==
    LET filtered == FilterFrom(combined, inputFiles, 1, <<>>, <<>>)
        basic == addBasicDependencies(filtered.hashNodes)
        bfs == bfsOutputTree(basic.hashNodes, inputFiles, filtered.files, filtered.output)
    IN  IF filtered.error # NoError
        THEN [error |-> filtered.error, hashNodes |-> filtered.hashNodes,
              output |-> filtered.output, visited |-> {}, closes |-> FALSE]
        ELSE IF basic.error # NoError
        THEN [error |-> basic.error, hashNodes |-> basic.hashNodes,
              output |-> filtered.output, visited |-> {}, closes |-> FALSE]
        ELSE [error |-> NoError, hashNodes |-> basic.hashNodes,
              output |-> bfs.output, visited |-> bfs.visited, closes |-> TRUE]

(***************************************************************************)
(* The topological-sort version of index.js: buildBasicDependencies and    *)
(* the callback of Promise.all(...).then.  mergedNodes is a Map from stem  *)
(* to an object that may hold the stem's file; here it is the keys in      *)
(* insertion order and each key's file (0: none).                          *)
(***************************************************************************)
\* the error sortOp.sort() throws on a cycle
SortError == [type |-> "SortError", stem |-> Null]

RECURSIVE buildBasicDependencies(_)
buildBasicDependencies(stem) ==
    LET bemNaming == bemNamingParser(stem)
    IN  IF isBadNaming(bemNaming) THEN [error |-> InvalidNaming(stem), output |-> <<>>]
        ELSE IF isBlockBemNaming(bemNaming) THEN [error |-> NoError, output |-> <<>>]
        ELSE LET dependencyStem == bemNamingToClassname(DeleteFacet(bemNaming))
                 rest == buildBasicDependencies(dependencyStem)
             IN  IF rest.error # NoError THEN rest
                 ELSE [error |-> NoError, output |-> <<dependencyStem>> \o rest.output]

\* const mergedNodes = new Map; const edges = [];
NewMerged == [order |-> <<>>, file |-> <<>>, edges |-> <<>>]

\* if (!mergedNodes.has(stem)) mergedNodes.set(stem, {})
MergedEnsure(merged, stem) ==
    IF stem \in Range(merged.order) THEN merged
    ELSE [merged EXCEPT !.order = Append(@, stem), !.file = @ @@ (stem :> 0)]

RECURSIVE MergeDeclared(_, _, _, _)
\* for (let dependencyStem of stemDependencies) ..., from element k
MergeDeclared(merged, stem, stemDependencies, k) ==
    IF k > Len(stemDependencies) THEN merged
    ELSE MergeDeclared(
             [MergedEnsure(merged, stemDependencies[k])
                 EXCEPT !.edges = Append(@, <<stemDependencies[k], stem>>)],
             stem, stemDependencies, k + 1)

RECURSIVE MergeDepsFrom(_, _, _)
\* for (let dependencyFile of depsFiles) ..., from file i
MergeDepsFrom(merged, deps, i) ==
    IF i > Len(deps) THEN [error |-> NoError, merged |-> merged]
    ELSE IF deps[i].contents.throws THEN [error |-> ContentsError, merged |-> merged]
    ELSE LET stem == getFileStem(deps[i].path, ".deps.js")
             stemDependencies == parseDependencies(deps[i].contents)
         IN  MergeDepsFrom(MergeDeclared(MergedEnsure(merged, stem), stem, stemDependencies, 1),
                           deps, i + 1)

RECURSIVE MergeBasic(_, _, _, _)
\* for (let i = 0; i < fileDependencies.length; i++) ..., from element i
MergeBasic(merged, stem, fileDependencies, i) ==
    IF i > Len(fileDependencies) THEN merged
    ELSE LET toEdgeKey == IF i = 1 THEN stem ELSE fileDependencies[i - 1]
         IN  MergeBasic(
                 [MergedEnsure(merged, fileDependencies[i])
                     EXCEPT !.edges = Append(@, <<fileDependencies[i], toEdgeKey>>)],
                 stem, fileDependencies, i + 1)

RECURSIVE MergeFilesFrom(_, _, _)
\* for (let inputFile of files) ..., from file i
MergeFilesFrom(merged, inputFiles, i) ==
    IF i > Len(inputFiles) THEN [error |-> NoError, merged |-> merged]
    ELSE LET stem == getFileStem(inputFiles[i].path, "")
             withFile == [MergedEnsure(merged, stem) EXCEPT !.file[stem] = i]
             fileDependencies == buildBasicDependencies(stem)
         IN  IF fileDependencies.error # NoError
             THEN [error |-> fileDependencies.error, merged |-> withFile]
             ELSE MergeFilesFrom(MergeBasic(withFile, stem, fileDependencies.output, 1),
                                 inputFiles, i + 1)

RECURSIVE SortsFrom(_, _, _)
\* the orders of the nodes in which every edge goes forward; none when the
\* edges make a cycle
SortsFrom(sorted, remaining, edges) ==
    IF remaining = {} THEN {sorted}
    ELSE UNION {SortsFrom(Append(sorted, n), remaining \ {n}, edges) :
                    n \in {m \in remaining : \A e \in Range(edges) : e[2] = m => e[1] \notin remaining}}

\* what sortOp.sort() may return
TopologicalSorts(merged) == SortsFrom(<<>>, Range(merged.order), merged.edges)

RECURSIVE FilesOfSorted(_, _, _)
\* for (let [, value] of sorted) if (value.file) ctx.push(value.file)
FilesOfSorted(merged, sorted, k) ==
    IF k > Len(sorted) THEN <<>>
    ELSE (IF merged.file[sorted[k]] # 0 THEN <<merged.file[sorted[k]]>> ELSE <<>>)
             \o FilesOfSorted(merged, sorted, k + 1)

\* the callback up to the sort
MergeNodes(deps, inputFiles) ==
    LET declared == MergeDepsFrom(NewMerged, deps, 1)
    IN  IF declared.error # NoError THEN declared
        ELSE MergeFilesFrom(declared.merged, inputFiles, 1)

(***************************************************************************)
(* The first version of index.js: the tree is a Map from a stem to the Set *)
(* of its dependencies, and bfsOutputTree walks the opposite Map,          *)
(* treeDependents.  A Map is its keys in insertion order (order) and the   *)
(* value of each key (deps), a Set being a sequence without duplicates.    *)
(***************************************************************************)
NewTree == [order |-> <<>>, deps |-> <<>>]

TreeHas(tree, stem) == stem \in Range(tree.order)

\* tree.set(stem, value) for a key the Map does not hold
TreeSet(tree, stem, value) ==
    [order |-> Append(tree.order, stem), deps |-> tree.deps @@ (stem :> value)]

RECURSIVE AddAll(_, _, _)
\* for (let dependency of stemDependencies) existingDependencies.add(dependency)
AddAll(existingDependencies, stemDependencies, k) ==
    IF k > Len(stemDependencies) THEN existingDependencies
    ELSE AddAll(SetAdd(existingDependencies, stemDependencies[k]), stemDependencies, k + 1)

RECURSIVE CombineMapFrom(_, _, _)
\* for (let file of deps) ..., from file i
CombineMapFrom(tree, deps, i) ==
    IF i > Len(deps) THEN [error |-> NoError, tree |-> tree]
    ELSE IF deps[i].contents.throws THEN [error |-> ContentsError, tree |-> tree]
    ELSE LET stem == getFileStem(deps[i].path, ".deps.js")
             stemDependencies == parseDependencies(deps[i].contents)
         IN  CombineMapFrom(
                 IF TreeHas(tree, stem)
                 THEN [tree EXCEPT !.deps[stem] = AddAll(@, stemDependencies, 1)]
                 ELSE TreeSet(tree, stem, stemDependencies),
                 deps, i + 1)

combineDepsMap(deps) == CombineMapFrom(NewTree, deps, 1)

addTreeNodeDependencyMap(tree, stem, dependency) ==
    LET withStem == IF TreeHas(tree, stem) THEN tree ELSE TreeSet(tree, stem, <<>>)
    IN  IF Truthy(dependency)
        THEN [withStem EXCEPT !.deps[stem] = SetAdd(@, dependency)]
        ELSE withStem

RECURSIVE addRecursiveNodeDependenciesMap(_, _)
\* as in the later version, a naming that is not block-only and has no
\* facet left to delete repeats the call until the stack is full
addRecursiveNodeDependenciesMap(tree, bemNaming) ==
    IF isBlockBemNaming(bemNaming)
    THEN [error |-> NoError, tree |-> addTreeNodeDependencyMap(tree, bemNaming.block, Undefined)]
    ELSE LET stem == bemNamingToClassname(bemNaming)
             stripped == DeleteFacet(bemNaming)
             added == addTreeNodeDependencyMap(tree, stem, bemNamingToClassname(stripped))
         IN  IF stripped = bemNaming
             THEN [error |-> StackOverflow, tree |-> added]
             ELSE addRecursiveNodeDependenciesMap(added, stripped)

RECURSIVE BasicMapFrom(_, _)
\* for (let [stem,] of tree) ..., from entry i; entries added during the
\* iteration are iterated too
BasicMapFrom(tree, i) ==
    IF i > Len(tree.order) THEN [error |-> NoError, tree |-> tree]
    ELSE LET stem == tree.order[i]
             bemNaming == bemNamingParser(stem)
         IN  IF isBadNaming(bemNaming)
             THEN [error |-> InvalidNaming(stem), tree |-> tree]
             ELSE LET r == addRecursiveNodeDependenciesMap(tree, bemNaming)
                  IN  IF r.error # NoError THEN r ELSE BasicMapFrom(r.tree, i + 1)

addBasicDependenciesMap(tree) == BasicMapFrom(tree, 1)

RECURSIVE RootDepsOf(_, _, _)
\* for (let dependencyStem of dependencies) if (!tree.has(dependencyStem)) ...
RootDepsOf(tree, dependencies, k) ==
    IF k > Len(dependencies) THEN tree
    ELSE RootDepsOf(IF TreeHas(tree, dependencies[k]) THEN tree
                    ELSE TreeSet(tree, dependencies[k], <<>>),
                    dependencies, k + 1)

RECURSIVE RootDepsFrom(_, _)
\* for (let [stem, dependencies] of tree) ..., from entry i
RootDepsFrom(tree, i) ==
    IF i > Len(tree.order) THEN tree
    ELSE RootDepsFrom(RootDepsOf(tree, tree.deps[tree.order[i]], 1), i + 1)

addRootDependencies(tree) == RootDepsFrom(tree, 1)

RECURSIVE DependentsOf(_, _, _, _)
\* for (let dependencyStem of dependencies) ...: stem is added to the
\* dependents of each of its dependencies
DependentsOf(treeDependents, stem, dependencies, k) ==
    IF k > Len(dependencies) THEN treeDependents
    ELSE LET dependencyStem == dependencies[k]
             has == IF TreeHas(treeDependents, dependencyStem) THEN treeDependents
                    ELSE TreeSet(treeDependents, dependencyStem, <<>>)
         IN  DependentsOf([has EXCEPT !.deps[dependencyStem] = SetAdd(@, stem)],
                          stem, dependencies, k + 1)

RECURSIVE DependentsFrom(_, _, _)
\* for (let [stem, dependencies] of tree) ..., from entry i
DependentsFrom(treeDependents, tree, i) ==
    IF i > Len(tree.order) THEN treeDependents
    ELSE LET stem == tree.order[i]
             has == IF TreeHas(treeDependents, stem) THEN treeDependents
                    ELSE TreeSet(treeDependents, stem, <<>>)
         IN  DependentsFrom(DependentsOf(has, stem, tree.deps[stem], 1), tree, i + 1)

\* the stems without dependencies, in the order of the tree
RootNodeChildren(tree) ==
    FilterBoolean([i \in 1..Len(tree.order) |->
                      IF tree.deps[tree.order[i]] = <<>> THEN tree.order[i] ELSE EmptyStr])

RECURSIVE EnqueueDependents(_, _, _)
\* for (let stem of treeNode.dependents) ...: a stem still in treeDependents
\* is put on the queue and deleted from treeDependents (left: its keys)
EnqueueDependents(st, dependents, k) ==
    IF k > Len(dependents) THEN st
    ELSE EnqueueDependents(
             IF dependents[k] \in st.left
             THEN [st EXCEPT !.processingQueue = Append(@, dependents[k]),
                             !.left = @ \ {dependents[k]}]
             ELSE st,
             dependents, k + 1)

\* one iteration of `while (processingQueue.length)`; the root is Null,
\* filesHash the file of each stem that still has one
BfsMapIteration(treeDependents, rootNodeChildren, st) ==
    LET treeNode == Head(st.processingQueue)
        pushes == treeNode # Null /\ treeNode \in DOMAIN st.filesHash
        popped == [st EXCEPT !.processingQueue = Tail(@),
                             !.output = IF pushes THEN Append(@, st.filesHash[treeNode]) ELSE @,
                             !.filesHash = IF pushes
                                           THEN [x \in DOMAIN @ \ {treeNode} |-> @[x]] ELSE @]
    IN  EnqueueDependents(popped,
                          IF treeNode = Null THEN rootNodeChildren
                          ELSE treeDependents.deps[treeNode], 1)

RECURSIVE BfsMapLoop(_, _, _)
BfsMapLoop(treeDependents, rootNodeChildren, st) ==
    IF st.processingQueue = <<>> THEN st
    ELSE BfsMapLoop(treeDependents, rootNodeChildren,
                    BfsMapIteration(treeDependents, rootNodeChildren, st))

\* filesHash.set(file[STEM], file) for each file: the last file of a stem
FilesHashOf(inputFiles, files) ==
    [stem \in {getFileStem(inputFiles[files[k]].path, "") : k \in 1..Len(files)} |->
        FilesHashGet(inputFiles, files, stem)]

bfsOutputTreeMap(tree, inputFiles, files, output) ==
    LET treeDependents == DependentsFrom(NewTree, tree, 1)
    IN  BfsMapLoop(treeDependents, RootNodeChildren(tree),
                   [processingQueue |-> <<Null>>, left |-> Range(treeDependents.order),
                    filesHash |-> FilesHashOf(inputFiles, files), output |-> output])

RECURSIVE FilterMapFrom(_, _, _, _, _)
\* files.filter(file => ...), from file i
FilterMapFrom(tree, inputFiles, i, kept, output) ==
    IF i > Len(inputFiles)
    THEN [error |-> NoError, tree |-> tree, files |-> kept, output |-> output]
    ELSE LET fileStem == getFileStem(inputFiles[i].path, "")
             bemNaming == bemNamingParser(fileStem)
         IN  IF isBadNaming(bemNaming)
             THEN [error |-> InvalidNaming(fileStem), tree |-> tree,
                   files |-> kept, output |-> output]
             ELSE IF isBlockBemNaming(bemNaming) /\ ~TreeHas(tree, bemNaming.block)
             THEN FilterMapFrom(tree, inputFiles, i + 1, kept, Append(output, i))
             ELSE FilterMapFrom(IF TreeHas(tree, fileStem) THEN tree
                                ELSE TreeSet(tree, fileStem, <<>>),
                                inputFiles, i + 1, Append(kept, i), output)

\* the whole callback of the first version: the filter,
\* addBasicDependencies, addRootDependencies, bfsOutputTree
OrderFilesMap(combinedTree, inputFiles) ==
    LET filtered == FilterMapFrom(combinedTree, inputFiles, 1, <<>>, <<>>)
        basic == addBasicDependenciesMap(filtered.tree)
        tree == addRootDependencies(basic.tree)
        bfs == bfsOutputTreeMap(tree, inputFiles, filtered.files, filtered.output)
    IN  IF filtered.error # NoError
        THEN [error |-> filtered.error, tree |-> filtered.tree,
              output |-> filtered.output, closes |-> FALSE]
        ELSE IF basic.error # NoError
        THEN [error |-> basic.error, tree |-> basic.tree,
              output |-> filtered.output, closes |-> FALSE]
        ELSE [error |-> NoError, tree |-> tree, output |-> bfs.output, closes |-> TRUE]

(***************************************************************************)
(* The weight version of index.js (gulpBemCSS): the tree is the Map of the *)
(* first version, built by the same combineDeps, filter and                *)
(* addBasicDependencies; the files are sorted by the weight of their       *)
(* stems.                                                                  *)
(***************************************************************************)
\* PluginError 'Circular dependency detected: ' + Array.from(dependencyTree)
CircularDependency(dependencyTree) == [type |-> "CircularDependency", stem |-> dependencyTree]

Max(a, b) == IF a >= b THEN a ELSE b

RECURSIVE calcRecursiveNodeWeightShared(_, _, _, _)
RECURSIVE WeightsOfShared(_, _, _, _, _, _)
\* calcRecursiveNodeWeight with one dependencyTree for all the dependencies
\* of a stem: the Set is not copied
WeightsOfShared(tree, dependencies, k, weight, dependencyTree, acc) ==
    IF k > Len(dependencies) THEN acc
    ELSE IF \E i \in 1..Len(dependencyTree) : dependencyTree[i] = dependencies[k]
    THEN [error |-> CircularDependency(dependencyTree), weight |-> 0, depth |-> acc.depth,
          seen |-> dependencyTree]
    ELSE LET r == calcRecursiveNodeWeightShared(tree, dependencies[k], weight,
                                                SetAdd(dependencyTree, dependencies[k]))
         IN  IF r.error # NoError THEN [r EXCEPT !.depth = Max(acc.depth, @ + 1)]
             ELSE WeightsOfShared(tree, dependencies, k + 1, weight, r.seen,
                                  [error |-> NoError, weight |-> Max(acc.weight, r.weight),
                                   depth |-> Max(acc.depth, r.depth + 1), seen |-> r.seen])

calcRecursiveNodeWeightShared(tree, stem, weight, dependencyTree) ==
    IF ~TreeHas(tree, stem) \/ tree.deps[stem] = <<>>
    THEN [error |-> NoError, weight |-> weight + 1, depth |-> 1, seen |-> dependencyTree]
    ELSE WeightsOfShared(tree, tree.deps[stem], 1, weight + 1, dependencyTree,
                         [error |-> NoError, weight |-> 0, depth |-> 1, seen |-> dependencyTree])

RECURSIVE calcRecursiveNodeWeight(_, _, _, _)
RECURSIVE WeightsOfSilent(_, _, _, _, _, _)
\* WeightsOf that passes over a dependency met before, and throws nothing
WeightsOfSilent(tree, dependencies, k, weight, dependencyTree, acc) ==
    IF k > Len(dependencies) THEN acc
    ELSE IF \E i \in 1..Len(dependencyTree) : dependencyTree[i] = dependencies[k]
    THEN WeightsOfSilent(tree, dependencies, k + 1, weight, dependencyTree,
                         [acc EXCEPT !.weight = Max(@, weight)])
    ELSE LET r == calcRecursiveNodeWeight(tree, dependencies[k], weight,
                                          SetAdd(dependencyTree, dependencies[k]))
         IN  WeightsOfSilent(tree, dependencies, k + 1, weight, dependencyTree,
                             [error |-> NoError, weight |-> Max(acc.weight, r.weight),
                              depth |-> Max(acc.depth, r.depth + 1)])

RECURSIVE WeightsOf(_, _, _, _, _, _)
\* for (let dependency of dependencies) ..., from dependency k; acc holds
\* the maximum of the weights so far.  depth counts the frames of
\* calcRecursiveNodeWeight on the stack at the deepest point.
WeightsOf(tree, dependencies, k, weight, dependencyTree, acc) ==
    IF k > Len(dependencies) THEN acc
    ELSE IF \E i \in 1..Len(dependencyTree) : dependencyTree[i] = dependencies[k]
    THEN [error |-> CircularDependency(dependencyTree), weight |-> 0, depth |-> acc.depth]
    ELSE LET r == calcRecursiveNodeWeight(tree, dependencies[k], weight,
                                          SetAdd(dependencyTree, dependencies[k]))
         IN  IF r.error # NoError THEN [r EXCEPT !.depth = Max(acc.depth, @ + 1)]
             ELSE WeightsOf(tree, dependencies, k + 1, weight, dependencyTree,
                            [error |-> NoError, weight |-> Max(acc.weight, r.weight),
                             depth |-> Max(acc.depth, r.depth + 1)])

calcRecursiveNodeWeight(tree, stem, weight, dependencyTree) ==
    IF ~TreeHas(tree, stem) \/ tree.deps[stem] = <<>>
    THEN [error |-> NoError, weight |-> weight + 1, depth |-> 1]
    ELSE WeightsOf(tree, tree.deps[stem], 1, weight + 1, dependencyTree,
                   [error |-> NoError, weight |-> 0, depth |-> 1])

RECURSIVE TreeWeightsFrom(_, _, _)
\* for (let [stem,] of tree) output.set(stem, weight), from entry i
TreeWeightsFrom(tree, i, acc) ==
    IF i > Len(tree.order) THEN acc
    ELSE LET stem == tree.order[i]
             r == calcRecursiveNodeWeight(tree, stem, 0, <<>>)
         IN  IF r.error # NoError
             THEN [error |-> r.error, weights |-> acc.weights, depth |-> Max(acc.depth, r.depth)]
             ELSE TreeWeightsFrom(tree, i + 1,
                                  [error |-> NoError,
                                   weights |-> acc.weights @@ (stem :> r.weight),
                                   depth |-> Max(acc.depth, r.depth)])

calcTreeNodesWeight(tree) ==
    TreeWeightsFrom(tree, 1, [error |-> NoError, weights |-> <<>>, depth |-> 0])

\* treeNodesWeights.get(file[STEM]) || 0
WeightOfFile(treeNodesWeights, inputFiles, file) ==
    LET stem == getFileStem(inputFiles[file].path, "")
    IN  IF stem \in DOMAIN treeNodesWeights THEN treeNodesWeights[stem] ELSE 0

RECURSIVE InsertByWeight(_, _, _, _)
\* file is put after the files that are not heavier than it
InsertByWeight(sorted, file, treeNodesWeights, inputFiles) ==
    IF sorted = <<>> THEN <<file>>
    ELSE IF WeightOfFile(treeNodesWeights, inputFiles, Head(sorted))
                <= WeightOfFile(treeNodesWeights, inputFiles, file)
    THEN <<Head(sorted)>> \o InsertByWeight(Tail(sorted), file, treeNodesWeights, inputFiles)
    ELSE <<file>> \o sorted

\* SortByWeight without the sort: the files stay as they arrived
SortByWeightUnsorted(files, treeNodesWeights, inputFiles) == files

RECURSIVE SortByWeight(_, _, _)
\* files.sort((a, b) => weight(a) - weight(b)): files of one weight keep
\* their order
SortByWeight(files, treeNodesWeights, inputFiles) ==
    IF files = <<>> THEN <<>>
    ELSE InsertByWeight(SortByWeight(SubSeq(files, 1, Len(files) - 1), treeNodesWeights, inputFiles),
                        files[Len(files)], treeNodesWeights, inputFiles)

\* the whole callback of the weight version: the filter,
\* addBasicDependencies, calcTreeNodesWeight, the sort and the pushes
OrderFilesWeight(combinedTree, inputFiles) ==
    LET filtered == FilterMapFrom(combinedTree, inputFiles, 1, <<>>, <<>>)
        basic == addBasicDependenciesMap(filtered.tree)
        treeNodesWeights == calcTreeNodesWeight(basic.tree)
    IN  IF filtered.error # NoError
        THEN [error |-> filtered.error, tree |-> filtered.tree,
              output |-> filtered.output, closes |-> FALSE]
        ELSE IF basic.error # NoError
        THEN [error |-> basic.error, tree |-> basic.tree,
              output |-> filtered.output, closes |-> FALSE]
        ELSE IF treeNodesWeights.error # NoError
        THEN [error |-> treeNodesWeights.error, tree |-> basic.tree,
              output |-> filtered.output, closes |-> FALSE]
        ELSE [error |-> NoError, tree |-> basic.tree,
              output |-> filtered.output
                             \o SortByWeight(filtered.files, treeNodesWeights.weights, inputFiles),
              closes |-> TRUE]

(***************************************************************************)
(* The inputs of a run.  Each run draws its deps.js files and its input    *)
(* files from one of a few small alphabets.                                *)
(***************************************************************************)
BlockA == <<"a">>
BlockB == <<"b">>
BlockC == <<"c">>
\* a__e
ElemAE == <<"a", "_", "_", "e">>
\* a_m
ModAM == <<"a", "_", "m">>
\* a_m_v
ModValAMV == <<"a", "_", "m", "_", "v">>
\* a__e_m_v
ElemModValAEMV == <<"a", "_", "_", "e", "_", "m", "_", "v">>
\* c____f, an element with an empty name (as invalid-block____foo)
InvalidStem == <<"c", "_", "_", "_", "_", "f">>

\* ({mustDeps: [{block: ...}, ...]})
DeclBlocks(blocks) == Evaluates(Must(JsArray([k \in 1..Len(blocks) |-> Leaf(blocks[k])])))
\* ({mustDeps: [{block: 'a', elem: 'e'}]})
DeclElem == Evaluates(Must(JsArray(<<[Leaf(BlockA) EXCEPT !.elem = <<"e">>]>>)))
\* ({mustDeps: [{block: 'a', mod: 'm', val: 'v'}]})
DeclModVal == Evaluates(Must(JsArray(<<[Leaf(BlockA) EXCEPT !.mod = <<"m">>, !.val = <<"v">>]>>)))
\* ({mustDeps: [{block: 'a', elem: 'e', elemMods: {m: 'v'}}]})
DeclElemMods ==
    Evaluates(Must(JsArray(<<[Leaf(BlockA) EXCEPT !.elem = <<"e">>, !.elemModsType = "object",
                                                  !.elemMods = <<Entry(<<"m">>, "scalar", <<"v">>, <<>>)>>]>>)))

\* b_m and b__e
ModBM == <<"b", "_", "m">>
ElemBE == <<"b", "_", "_", "e">>

(***************************************************************************)
(* Clauses of deps.js files, for the runs on one deps.js file a.deps.js    *)
(* with one clause or a nest of clauses.                                   *)
(***************************************************************************)
\* name: true, name: 'val', name: [vals]
BooleanEntry(name) == Entry(name, "boolean", Undefined, <<>>)
ScalarEntry(name, val) == Entry(name, "scalar", val, <<>>)
ArrayEntry(name, vals) == Entry(name, "array", Undefined, vals)

\* mods objects of no, one and two keys
ModsObjects ==
    LET first == {BooleanEntry(<<"m">>), ScalarEntry(<<"m">>, <<"v">>), ArrayEntry(<<"m">>, <<>>),
                  ArrayEntry(<<"m">>, <<<<"v">>>>), ArrayEntry(<<"m">>, <<<<"v">>, <<"w">>>>)}
        second == {BooleanEntry(<<"n">>), ScalarEntry(<<"n">>, <<"w">>)}
    IN  {<<>>} \cup {<<x>> : x \in first} \cup {<<x, y>> : x \in first, y \in second}

\* elemMods objects of no, one and two keys
ElemModsObjects ==
    {<<>>,
     <<ScalarEntry(<<"m">>, <<"v">>)>>,
     <<BooleanEntry(<<"m">>)>>,
     <<ScalarEntry(<<"m">>, <<"v">>), BooleanEntry(<<"n">>)>>,
     <<BooleanEntry(<<"m">>), ScalarEntry(<<"n">>, <<"w">>)>>}

\* arrays of names, for mods and elems
NameArrays(one, other) == {<<>>, <<one>>, <<one, other>>}

\* the block of a clause: given or missing
ClauseBlocks == {BlockB, Undefined}

\* {block, mods: {...}}
ModsObjectClauses ==
    {[Leaf(block) EXCEPT !.modsType = "object", !.mods = mods] :
        block \in ClauseBlocks, mods \in ModsObjects}
    \cup {[Leaf(BlockB) EXCEPT !.modsType = "object", !.mods = <<BooleanEntry(<<"m">>)>>,
                               !.mod = <<"n">>, !.val = <<"v">>, !.elem = <<"e">>,
                               !.elemsType = "array", !.elems = <<<<"f">>>>]}

\* {block, mods: [...]} and {block, elems: [...]}, and one with both
ListClauses ==
    {[Leaf(block) EXCEPT !.modsType = "array", !.mods = mods] :
        block \in ClauseBlocks, mods \in NameArrays(<<"m">>, <<"n">>)}
    \cup {[Leaf(block) EXCEPT !.elemsType = "array", !.elems = elems] :
        block \in ClauseBlocks, elems \in NameArrays(<<"e">>, <<"f">>)}
    \cup {[Leaf(BlockB) EXCEPT !.modsType = "array", !.mods = <<<<"m">>>>,
                               !.elemsType = "array", !.elems = <<<<"e">>>>]}

\* {block, mod, val, elem, elemMods}, each but the block given or not
PlainClauses ==
    {[Leaf(block) EXCEPT !.mod = mod, !.val = val, !.elem = elem,
                         !.elemModsType = em[1], !.elemMods = em[2]] :
        block \in ClauseBlocks,
        mod \in {Undefined, <<"m">>},
        val \in {Undefined, <<"v">>},
        elem \in {Undefined, <<"e">>},
        em \in {<<"undefined", <<>>>>} \cup {<<"object", o>> : o \in ElemModsObjects}}

\* ({mustDeps: [clause]})
SingleClause(clause) == Evaluates(Must(JsArray(<<clause>>)))

\* [{mustDeps: [{block: 'b'}, {mustDeps: [{block: 'b', elem: 'e'},
\*   {mustDeps: {block: 'b', mod: 'm'}}, {block: 'b'}]}]}, {block: 'b', elem: 'e'}, {block: ''}]
NestedClauses ==
    Evaluates(JsArray(<<
        Must(JsArray(<<
            Leaf(BlockB),
            Must(JsArray(<<
                [Leaf(BlockB) EXCEPT !.elem = <<"e">>],
                Must([Leaf(BlockB) EXCEPT !.mod = <<"m">>]),
                Leaf(BlockB)>>))>>)),
        [Leaf(BlockB) EXCEPT !.elem = <<"e">>],
        Leaf(EmptyStr)>>))

\* ({mustDeps: [{block: 'b', tech: 'js'}, {noDeps: true, mustDeps: [{block: 'b', mod: 'm'}]},
\*   {block: 'b', elem: 'e'}]})
SuppressedClauses ==
    Evaluates(Must(JsArray(<<
        [Leaf(BlockB) EXCEPT !.tech = TRUE],
        [Must(JsArray(<<[Leaf(BlockB) EXCEPT !.mod = <<"m">>]>>)) EXCEPT !.noDeps = TRUE],
        [Leaf(BlockB) EXCEPT !.elem = <<"e">>]>>)))

\* ({tech: 'js', mustDeps: [{block: 'b'}]}): everything under a tech clause
AllSuppressed == Evaluates([Must(JsArray(<<Leaf(BlockB)>>)) EXCEPT !.tech = TRUE])

\* the contents a.deps.js may have
ClauseContents ==
    {SingleClause(clause) : clause \in ModsObjectClauses \cup ListClauses \cup PlainClauses}
    \cup {SingleClause([Leaf(BlockB) EXCEPT !.tech = TRUE]),
          SingleClause([Leaf(BlockB) EXCEPT !.noDeps = TRUE, !.modsType = "array", !.mods = <<<<"m">>>>]),
          NestedClauses, SuppressedClauses, AllSuppressed}

Alphabets == {"blocks", "elems", "mods", "errors"}

\* stems of the files written to the input stream
InputStems(alpha) ==
    IF alpha = "blocks" THEN {BlockA, BlockB, BlockC}
    ELSE IF alpha = "elems" THEN {BlockA, BlockB, ElemAE}
    ELSE IF alpha = "mods" THEN {BlockA, ModAM, ModValAMV}
    ELSE IF alpha = "clauses" THEN {BlockA, ModBM, ElemBE}
    ELSE {BlockA, InvalidStem, ElemModValAEMV}

\* the deps.js files the deps stream may deliver
DepsAlphabet(alpha) ==
    IF alpha = "blocks"
    THEN {DepsFile(BlockA, DeclBlocks(<<BlockB, BlockC>>)), DepsFile(BlockB, DeclBlocks(<<BlockC>>)),
          DepsFile(BlockA, DeclBlocks(<<BlockC>>)), DepsFile(BlockC, DeclBlocks(<<BlockB>>))}
    ELSE IF alpha = "elems"
    THEN {DepsFile(BlockB, DeclElem), DepsFile(BlockA, DeclBlocks(<<BlockB>>)),
          DepsFile(BlockA, DeclBlocks(<<BlockC>>)), DepsFile(BlockC, DeclBlocks(<<BlockB>>))}
    ELSE IF alpha = "mods"
    THEN {DepsFile(BlockB, DeclModVal), DepsFile(BlockA, DeclBlocks(<<BlockB>>)),
          DepsFile(ModAM, DeclBlocks(<<BlockB>>)), DepsFile(BlockB, DeclBlocks(<<>>))}
    ELSE {DepsFile(BlockA, DeclBlocks(<<InvalidStem>>)), DepsFile(InvalidStem, DeclBlocks(<<>>)),
          DepsFile(BlockA, DeclElemMods), DepsFile(BlockA, Throws)}

(***************************************************************************)
(* The state of one run of gulpOrderBemDeps(deps).                         *)
(***************************************************************************)
VARIABLES
    alphabet,     \* the alphabet the run's inputs are drawn from
    depsFiles,    \* collectStreamFiles(deps): the files collected so far
    depsState,    \* the deps stream: "open", "ended" or "errored"
    combined,     \* collectStreamFiles(deps).then(combineDeps): "pending", "resolved", "rejected"
    hashNodes,    \* the tree: combineDeps' result, then the callback's
    inputFiles,   \* getStreamAndPromiseForInputStream: files
    flushed,      \* the flush function has run: inputPromise is resolved
    pc,           \* the promise chain: "waiting", "closed", "threw", "failed"
    streamCtx,    \* whether streamCtx is set
    visited,      \* the nodes marked visited
    output,       \* the files pushed to the output stream, in order
    thrown,       \* the rejection reason of the chain
    emitted,      \* the error of the 'error' event emitted on the output stream
    uncaught      \* the error the catch callback itself threw

vars == <<alphabet, depsFiles, depsState, combined, hashNodes, inputFiles, flushed, pc,
          streamCtx, visited, output, thrown, emitted, uncaught>>

Init ==
    /\ alphabet \in Alphabets
    /\ depsFiles = <<>>
    /\ depsState = "open"
    /\ combined = "pending"
    /\ hashNodes = NewHashNodes
    /\ inputFiles = <<>>
    /\ flushed = FALSE
    /\ pc = "waiting"
    /\ streamCtx = FALSE
    /\ visited = {}
    /\ output = <<>>
    /\ thrown = NoError
    /\ emitted = NoError
    /\ uncaught = NoError

\* stream.on('data', file => files.push(file))
DepsData ==
    /\ depsState = "open"
    /\ Len(depsFiles) < MaxDeps
    /\ \E file \in DepsAlphabet(alphabet) : depsFiles' = Append(depsFiles, file)
    /\ UNCHANGED <<alphabet, depsState, combined, hashNodes, inputFiles, flushed, pc,
                   streamCtx, visited, output, thrown, emitted, uncaught>>

\* stream.on('end', () => resolve(files))
DepsEnd ==
    /\ depsState = "open"
    /\ depsState' = "ended"
    /\ UNCHANGED <<alphabet, depsFiles, combined, hashNodes, inputFiles, flushed, pc,
                   streamCtx, visited, output, thrown, emitted, uncaught>>

\* stream.on('error', reject): Promise.all rejects with the stream's error
DepsError ==
    /\ depsState = "open"
    /\ depsState' = "errored"
    /\ combined' = "rejected"
    /\ pc' = "threw"
    /\ thrown' = StreamError
    /\ UNCHANGED <<alphabet, depsFiles, hashNodes, inputFiles, flushed,
                   streamCtx, visited, output, emitted, uncaught>>

\* CombineDeps that does not wait for the end of the deps stream
CombineDepsBeforeEnd ==
    /\ depsState \in {"open", "ended"}
    /\ combined = "pending"
    /\ LET r == combineDeps(depsFiles)
       IN  IF r.error = NoError
           THEN /\ combined' = "resolved"
                /\ hashNodes' = r.hashNodes
                /\ UNCHANGED <<pc, thrown>>
           ELSE /\ combined' = "rejected"
                /\ pc' = "threw"
                /\ thrown' = r.error
                /\ UNCHANGED hashNodes
    /\ UNCHANGED <<alphabet, depsFiles, depsState, inputFiles, flushed,
                   streamCtx, visited, output, emitted, uncaught>>

\* .then(combineDeps): runs once the deps stream has ended; when it throws,
\* Promise.all rejects
CombineDeps ==
    /\ depsState = "ended"
    /\ combined = "pending"
    /\ LET r == combineDeps(depsFiles)
       IN  IF r.error = NoError
           THEN /\ combined' = "resolved"
                /\ hashNodes' = r.hashNodes
                /\ UNCHANGED <<pc, thrown>>
           ELSE /\ combined' = "rejected"
                /\ pc' = "threw"
                /\ thrown' = r.error
                /\ UNCHANGED hashNodes
    /\ UNCHANGED <<alphabet, depsFiles, depsState, inputFiles, flushed,
                   streamCtx, visited, output, emitted, uncaught>>

\* the transform function of the through2 stream: files.push(file); callback()
Write ==
    /\ ~flushed
    /\ Len(inputFiles) < MaxFiles
    /\ \E stem \in InputStems(alphabet) : inputFiles' = Append(inputFiles, CssFile(stem))
    /\ UNCHANGED <<alphabet, depsFiles, depsState, combined, hashNodes, flushed, pc,
                   streamCtx, visited, output, thrown, emitted, uncaught>>

\* the flush function of the through2 stream: resolver({files, ctx, closeStreamCallback})
Flush ==
    /\ ~flushed
    /\ flushed' = TRUE
    /\ UNCHANGED <<alphabet, depsFiles, depsState, combined, hashNodes, inputFiles, pc,
                   streamCtx, visited, output, thrown, emitted, uncaught>>

\* Order that does not wait for the input stream's flush
OrderBeforeFlush ==
    /\ pc = "waiting"
    /\ combined = "resolved"
    /\ streamCtx' = TRUE
    /\ LET r == OrderFiles(hashNodes, inputFiles)
       IN  /\ hashNodes' = r.hashNodes
           /\ output' = r.output
           /\ visited' = r.visited
           /\ thrown' = r.error
           /\ pc' = IF r.closes THEN "closed" ELSE "threw"
    /\ UNCHANGED <<alphabet, depsFiles, depsState, combined, inputFiles, flushed,
                   emitted, uncaught>>

\* Order that calls closeStreamCallback whether or not the callback threw
OrderClosesAlways ==
    /\ pc = "waiting"
    /\ combined = "resolved"
    /\ flushed
    /\ streamCtx' = TRUE
    /\ LET r == OrderFiles(hashNodes, inputFiles)
       IN  /\ hashNodes' = r.hashNodes
           /\ output' = r.output
           /\ visited' = r.visited
           /\ thrown' = r.error
           /\ pc' = "closed"
    /\ UNCHANGED <<alphabet, depsFiles, depsState, combined, inputFiles, flushed,
                   emitted, uncaught>>

\* Promise.all([...]).then(callback): both promises are resolved
Order ==
    /\ pc = "waiting"
    /\ combined = "resolved"
    /\ flushed
    /\ streamCtx' = TRUE
    /\ LET r == OrderFiles(hashNodes, inputFiles)
       IN  /\ hashNodes' = r.hashNodes
           /\ output' = r.output
           /\ visited' = r.visited
           /\ thrown' = r.error
           /\ pc' = IF r.closes THEN "closed" ELSE "threw"
    /\ UNCHANGED <<alphabet, depsFiles, depsState, combined, inputFiles, flushed,
                   emitted, uncaught>>

\* .catch(err => { ...; streamCtx.emit('error', err); })
Catch ==
    /\ pc = "threw"
    /\ pc' = "failed"
    /\ IF streamCtx
       THEN emitted' = thrown /\ UNCHANGED uncaught
       ELSE uncaught' = EmitOfUndefined /\ UNCHANGED emitted
    /\ UNCHANGED <<alphabet, depsFiles, depsState, combined, hashNodes, inputFiles, flushed,
                   streamCtx, visited, output, thrown>>

Next ==
    \/ DepsData
    \/ DepsEnd
    \/ DepsError
    \/ CombineDeps
    \/ Write
    \/ Flush
    \/ Order
    \/ Catch

Spec == Init /\ [][Next]_vars

(***************************************************************************)
(* Runs on one deps.js file, a.deps.js, whose contents are drawn from      *)
(* ClauseContents, and input files a, b_m and b__e.                        *)
(***************************************************************************)
InitClauses ==
    /\ alphabet = "clauses"
    /\ depsFiles = <<>>
    /\ depsState = "open"
    /\ combined = "pending"
    /\ hashNodes = NewHashNodes
    /\ inputFiles = <<>>
    /\ flushed = FALSE
    /\ pc = "waiting"
    /\ streamCtx = FALSE
    /\ visited = {}
    /\ output = <<>>
    /\ thrown = NoError
    /\ emitted = NoError
    /\ uncaught = NoError

\* stream.on('data', file => files.push(file)), for the one deps.js file
DepsDataClauses ==
    /\ depsState = "open"
    /\ depsFiles = <<>>
    /\ \E contents \in ClauseContents : depsFiles' = <<DepsFile(BlockA, contents)>>
    /\ UNCHANGED <<alphabet, depsState, combined, hashNodes, inputFiles, flushed, pc,
                   streamCtx, visited, output, thrown, emitted, uncaught>>

NextClauses ==
    \/ DepsDataClauses
    \/ DepsEnd
    \/ CombineDeps
    \/ Write
    \/ Flush
    \/ Order
    \/ Catch

SpecClauses == InitClauses /\ [][NextClauses]_vars

(***************************************************************************)
(* The run of the topological-sort version: the deps.js files are not      *)
(* combined before the callback.                                           *)
(***************************************************************************)
\* stream.on('end', () => resolve(files)): collectStreamFiles(deps) resolves
DepsEndResolves ==
    /\ depsState = "open"
    /\ depsState' = "ended"
    /\ combined' = "resolved"
    /\ UNCHANGED <<alphabet, depsFiles, hashNodes, inputFiles, flushed, pc,
                   streamCtx, visited, output, thrown, emitted, uncaught>>

\* Promise.all([...]).then(callback): both promises are resolved
OrderTopological ==
    /\ pc = "waiting"
    /\ combined = "resolved"
    /\ flushed
    /\ streamCtx' = TRUE
    /\ LET m == MergeNodes(depsFiles, inputFiles)
       IN  IF m.error # NoError
           THEN /\ thrown' = m.error
                /\ pc' = "threw"
                /\ UNCHANGED output
           ELSE IF TopologicalSorts(m.merged) = {}
           THEN /\ thrown' = SortError
                /\ pc' = "threw"
                /\ UNCHANGED output
           ELSE /\ \E sorted \in TopologicalSorts(m.merged) :
                       output' = FilesOfSorted(m.merged, sorted, 1)
                /\ pc' = "closed"
                /\ UNCHANGED thrown
    /\ UNCHANGED <<alphabet, depsFiles, depsState, combined, hashNodes, inputFiles, flushed,
                   visited, emitted, uncaught>>

NextTopological ==
    \/ DepsData
    \/ DepsEndResolves
    \/ DepsError
    \/ Write
    \/ Flush
    \/ OrderTopological
    \/ Catch

SpecTopological == Init /\ [][NextTopological]_vars

(***************************************************************************)
(* The run of the first version.  hashNodes holds the tree, the Map of     *)
(* combineDeps and then of the callback.                                   *)
(***************************************************************************)
\* .then(combineDeps) of the first version
CombineDepsMap ==
    /\ depsState = "ended"
    /\ combined = "pending"
    /\ LET r == combineDepsMap(depsFiles)
       IN  IF r.error = NoError
           THEN /\ combined' = "resolved"
                /\ hashNodes' = r.tree
                /\ UNCHANGED <<pc, thrown>>
           ELSE /\ combined' = "rejected"
                /\ pc' = "threw"
                /\ thrown' = r.error
                /\ UNCHANGED hashNodes
    /\ UNCHANGED <<alphabet, depsFiles, depsState, inputFiles, flushed,
                   streamCtx, visited, output, emitted, uncaught>>

\* Promise.all([...]).then(callback) of the first version
OrderMap ==
    /\ pc = "waiting"
    /\ combined = "resolved"
    /\ flushed
    /\ streamCtx' = TRUE
    /\ LET r == OrderFilesMap(hashNodes, inputFiles)
       IN  /\ hashNodes' = r.tree
           /\ output' = r.output
           /\ thrown' = r.error
           /\ pc' = IF r.closes THEN "closed" ELSE "threw"
    /\ UNCHANGED <<alphabet, depsFiles, depsState, combined, inputFiles, flushed,
                   visited, emitted, uncaught>>

NextMap ==
    \/ DepsData
    \/ DepsEnd
    \/ DepsError
    \/ CombineDepsMap
    \/ Write
    \/ Flush
    \/ OrderMap
    \/ Catch

SpecMap == Init /\ [][NextMap]_vars

(***************************************************************************)
(* The run of the weight version.  Its flattenDepsJS differs from the      *)
(* later one in the elemMods branch only, so its runs draw from the        *)
(* alphabets whose deps.js files have no elemMods.                         *)
(***************************************************************************)
WeightAlphabets == {"blocks", "elems", "mods"}

InitWeight == Init /\ alphabet \in WeightAlphabets

\* Promise.all([...]).then(callback) of the weight version
OrderWeight ==
    /\ pc = "waiting"
    /\ combined = "resolved"
    /\ flushed
    /\ streamCtx' = TRUE
    /\ LET r == OrderFilesWeight(hashNodes, inputFiles)
       IN  /\ hashNodes' = r.tree
           /\ output' = r.output
           /\ thrown' = r.error
           /\ pc' = IF r.closes THEN "closed" ELSE "threw"
    /\ UNCHANGED <<alphabet, depsFiles, depsState, combined, inputFiles, flushed,
                   visited, emitted, uncaught>>

NextWeight ==
    \/ DepsData
    \/ DepsEnd
    \/ DepsError
    \/ CombineDepsMap
    \/ Write
    \/ Flush
    \/ OrderWeight
    \/ Catch

SpecWeight == InitWeight /\ [][NextWeight]_vars

(***************************************************************************)
(* Vocabulary of the properties: the dependency relation of a run, stated  *)
(* on the stems the run was given, independently of the tree the code      *)
(* builds.                                                                 *)
(***************************************************************************)
\* the stem of input file i
StemOf(i) == getFileStem(inputFiles[i].path, "")

InputStemSet == {StemOf(i) : i \in 1..Len(inputFiles)}

\* the position of file i in the output, 0 when it was not pushed
PosInOutput(i) ==
    IF \E k \in 1..Len(output) : output[k] = i
    THEN CHOOSE k \in 1..Len(output) : output[k] = i
    ELSE 0

Pushed(i) == PosInOutput(i) # 0

\* how often file i was pushed
TimesPushed(i) == Cardinality({k \in 1..Len(output) : output[k] = i})

\* the deps.js files whose contents evaluate
GoodDeps == {k \in 1..Len(depsFiles) : ~depsFiles[k].contents.throws}

\* the pairs <<x, y>> where stem x has a deps.js file that names y
DeclaredEdges ==
    UNION {{<<getFileStem(depsFiles[k].path, ".deps.js"), y>> :
                y \in Range(parseDependencies(depsFiles[k].contents))} : k \in GoodDeps}

Declared(x, y) == <<x, y>> \in DeclaredEdges

\* stems that have a deps.js file, and stems the deps.js files name
DepsStemSet == {getFileStem(depsFiles[k].path, ".deps.js") : k \in GoodDeps}
NamedStemSet == {e[2] : e \in DeclaredEdges}

\* the stem of a naming record, all six facets written
StemIdOf(naming) ==
    naming.block
        \o (IF naming.mod # Undefined THEN <<"_">> \o naming.mod ELSE <<>>)
        \o (IF naming.modVal # Undefined THEN <<"_">> \o naming.modVal ELSE <<>>)
        \o (IF naming.elem # Undefined THEN <<"_", "_">> \o naming.elem ELSE <<>>)
        \o (IF naming.elemMod # Undefined THEN <<"_">> \o naming.elemMod ELSE <<>>)
        \o (IF naming.elemVal # Undefined THEN <<"_">> \o naming.elemVal ELSE <<>>)

\* a stem is valid when no facet of it is empty
ValidStem(stem) == ~isBadNaming(bemNamingParser(stem))

\* the naming ancestor next to a stem: the stem without its most specific facet
NamingParents(stem) ==
    LET n == bemNamingParser(stem)
    IN  IF ~ValidStem(stem) THEN {}
        ELSE IF n.elemVal # Undefined THEN {StemIdOf([n EXCEPT !.elemVal = Undefined])}
        ELSE IF n.elemMod # Undefined THEN {StemIdOf([n EXCEPT !.elemMod = Undefined])}
        ELSE IF n.elem # Undefined THEN {StemIdOf([n EXCEPT !.elem = Undefined])}
        ELSE IF n.modVal # Undefined THEN {StemIdOf([n EXCEPT !.modVal = Undefined])}
        ELSE IF n.mod # Undefined THEN {StemIdOf([n EXCEPT !.mod = Undefined])}
        ELSE {}

RECURSIVE WithAncestors(_)
\* a set of stems closed under NamingParents
WithAncestors(stems) ==
    LET more == stems \cup UNION {NamingParents(x) : x \in stems}
    IN  IF more = stems THEN stems ELSE WithAncestors(more)

\* every stem known to the run
KnownStems == InputStemSet \cup DepsStemSet \cup NamedStemSet

\* the nodes of the dependency graph
GraphStems == WithAncestors(KnownStems)

\* x depends on y directly: declared, or implied by the naming
DependencyEdges == DeclaredEdges \cup UNION {{<<x, y>> : y \in NamingParents(x)} : x \in GraphStems}

RECURSIVE TransitiveClosure(_)
TransitiveClosure(R) ==
    LET more == R \cup {<<p[1][1], p[2][2]>> : p \in {q \in R \X R : q[1][2] = q[2][1]}}
    IN  IF more = R THEN R ELSE TransitiveClosure(more)

\* <<x, y>>: x depends on y, directly or through other stems
Depends == TransitiveClosure(DependencyEdges)

\* no stem depends on itself
AcyclicIn(depends) == \A e \in depends : e[1] # e[2]
Acyclic == AcyclicIn(Depends)

\* the stems of the input files differ
DistinctStems == \A i, j \in 1..Len(inputFiles) : StemOf(i) = StemOf(j) => i = j

\* the run has ended, one way or the other
Finished == pc \in {"closed", "failed"}

(***************************************************************************)
(* C1.  Validity of the BFS version: in a run on an acyclic dependency     *)
(* graph, when the stem of input file i depends (declared or implied,      *)
(* directly or through other stems) on the stem of an input file, then by  *)
(* the time file i is pushed a file of that stem has been pushed, and no   *)
(* file of that stem is pushed after file i.                               *)
(***************************************************************************)
C1_Validity ==
    (Finished /\ output # <<>>) =>
        LET depends == Depends
        IN  AcyclicIn(depends) =>
                \A i, j \in 1..Len(inputFiles) :
                    (Pushed(i) /\ <<StemOf(i), StemOf(j)>> \in depends) =>
                        /\ \E k \in 1..Len(inputFiles) :
                               StemOf(k) = StemOf(j) /\ Pushed(k) /\ PosInOutput(k) < PosInOutput(i)
                        /\ Pushed(j) => PosInOutput(j) < PosInOutput(i)

\* a closed run in which a file was written before the two files it depends
\* on, one declared and one of them at two distances from the root
C1_Witness ==
    /\ pc = "closed"
    /\ Acyclic
    /\ Len(inputFiles) = 3
    /\ DistinctStems
    /\ \A i \in 1..3 : Pushed(i)
    /\ Declared(StemOf(1), StemOf(2))
    /\ Declared(StemOf(1), StemOf(3))
    /\ Declared(StemOf(2), StemOf(3))
    /\ output = <<3, 2, 1>>

\* the run was given declarations that evaluate, whole, and stems that are valid
GoodInputs ==
    /\ depsState = "ended"
    /\ GoodDeps = 1..Len(depsFiles)
    /\ \A stem \in GraphStems : ValidStem(stem)

\* the output holds every input file once and nothing else
OutputIsPermutation ==
    /\ Len(output) = Len(inputFiles)
    /\ \A i \in 1..Len(inputFiles) : TimesPushed(i) = 1

(***************************************************************************)
(* C2.  Totality of the BFS version: a run on an acyclic graph whose stems *)
(* are all valid, with input files of pairwise distinct stems, closes the  *)
(* output stream after pushing every input file exactly once and nothing   *)
(* else.                                                                   *)
(***************************************************************************)
C2_Totality ==
    (Finished /\ GoodInputs /\ DistinctStems /\ Acyclic) =>
        (pc = "closed" /\ OutputIsPermutation)

(***************************************************************************)
(* C3.  Cycle reporting in the BFS version: a run whose dependency graph   *)
(* has a cycle does not close the output stream as a successful run; it    *)
(* ends with an error on the output stream.                                *)
(***************************************************************************)
C3_CycleReported ==
    (Finished /\ GoodInputs /\ ~Acyclic) =>
        (pc = "failed" /\ emitted # NoError)

(***************************************************************************)
(* C4.  Invalid naming is fatal for every known stem: a run that was given *)
(* a stem with an empty facet, as the stem of an input file, as the stem   *)
(* of a deps.js file or as a stem a deps.js file names, ends with the      *)
(* error 'Invalid bem naming used' for such a stem on the output stream.   *)
(***************************************************************************)
C4_InvalidNamingFatal ==
    (/\ Finished
     /\ depsState = "ended"
     /\ GoodDeps = 1..Len(depsFiles)
     /\ \E stem \in KnownStems : ~ValidStem(stem)) =>
        (pc = "failed" /\ emitted.type = "InvalidNaming" /\ ~ValidStem(emitted.stem))

(***************************************************************************)
(* C5.  No partial success: in a run that ends with an error no file has   *)
(* been pushed to the output.                                              *)
(***************************************************************************)
C5_NoPartialSuccess ==
    (pc \in {"threw", "failed"}) => output = <<>>

(***************************************************************************)
(* C6, as the claim states it: neither the tree of the declarations nor    *)
(* anything after it exists before the deps stream has ended and the input *)
(* stream has been received whole.                                         *)
(***************************************************************************)
C6_BarrierForConstruction ==
    (combined = "resolved" \/ streamCtx \/ output # <<>>) =>
        (depsState = "ended" /\ flushed)

(***************************************************************************)
(* C6.  Two-input barrier: the tree of the declarations is built once the  *)
(* deps stream has ended, from all the deps.js files; the input files are  *)
(* merged into it, ordered and pushed once the input stream has been       *)
(* received whole too, and what is pushed is what the complete inputs      *)
(* give.                                                                   *)
(***************************************************************************)
C6_Barrier ==
    /\ (combined # "pending") => (depsState # "open")
    /\ (combined = "resolved" /\ ~streamCtx) => (hashNodes = combineDeps(depsFiles).hashNodes)
    /\ (streamCtx \/ output # <<>>) =>
           /\ depsState = "ended"
           /\ combined = "resolved"
           /\ flushed
           /\ output = OrderFiles(combineDeps(depsFiles).hashNodes, inputFiles).output

\* a closed run on two deps.js files and two input files, the second pushed
\* first because a deps.js file says so
C6_Witness ==
    /\ pc = "closed"
    /\ Len(depsFiles) = 2
    /\ Len(inputFiles) = 2
    /\ output = <<2, 1>>
    /\ Declared(StemOf(1), StemOf(2))

(***************************************************************************)
(* C7.  Every failure is surfaced: a run that failed has emitted the error *)
(* it failed with on the output stream.                                    *)
(***************************************************************************)
C7_FailureSurfaced ==
    (pc = "failed") => (emitted # NoError /\ emitted = thrown)

\* the stems that are nodes of the graph and not input files
HiddenStems == GraphStems \ InputStemSet

\* <<x, y>>: x depends on y through a chain of stems none of which is an
\* input file
HiddenDepends ==
    LET edges == DependencyEdges
        hidden == HiddenStems
        among == TransitiveClosure({e \in edges : e[1] \in hidden /\ e[2] \in hidden})
                     \cup {<<h, h>> : h \in hidden}
    IN  {p \in InputStemSet \X InputStemSet :
            \E h \in among : <<p[1], h[1]>> \in edges /\ <<h[2], p[2]>> \in edges}

(***************************************************************************)
(* C8.  Ordering through hidden dependencies: in a closed run on an        *)
(* acyclic graph with input files of distinct stems, when the stem of      *)
(* input file i depends on the stem of input file j through a chain of     *)
(* stems that are not input files, both files are pushed and file j is     *)
(* pushed before file i.                                                   *)
(***************************************************************************)
C8_HiddenDependencies ==
    (pc = "closed" /\ DistinctStems /\ HiddenStems # {}) =>
        LET depends == Depends
            hiddenDepends == HiddenDepends
        IN  AcyclicIn(depends) =>
                \A i, j \in 1..Len(inputFiles) :
                    (<<StemOf(i), StemOf(j)>> \in hiddenDepends) =>
                        (Pushed(i) /\ Pushed(j) /\ PosInOutput(j) < PosInOutput(i))

\* a depends on c and c on b, c is no input file; a__e, b and a arrive
\* and b, a, a__e are pushed
C8_Witness ==
    /\ pc = "closed"
    /\ Len(inputFiles) = 3
    /\ StemOf(1) = ElemAE /\ StemOf(2) = BlockB /\ StemOf(3) = BlockA
    /\ Declared(BlockA, BlockC) /\ Declared(BlockC, BlockB)
    /\ ~Declared(BlockA, BlockB)
    /\ <<BlockA, BlockB>> \in HiddenDepends
    /\ output = <<2, 3, 1>>

\* no declaration exists and every input file is a block
NoDeclarationsBlocksOnly ==
    /\ depsFiles = <<>>
    /\ \A i \in 1..Len(inputFiles) : isBlockBemNaming(bemNamingParser(StemOf(i)))

NamingAncestors ==
    TransitiveClosure(UNION {{<<x, y>> : y \in NamingParents(x)} : x \in GraphStems})

(***************************************************************************)
(* C10.  Implicit naming dependencies order the output: in a closed run on *)
(* an acyclic graph with input files of distinct stems, when the stem of   *)
(* input file j is a naming ancestor of the stem of input file i, both     *)
(* files are pushed and file j is pushed before file i.                    *)
(***************************************************************************)
C10_NamingOrder ==
    (pc = "closed" /\ DistinctStems) =>
        LET ancestors == NamingAncestors
            misplaced == {p \in (1..Len(inputFiles)) \X (1..Len(inputFiles)) :
                            /\ <<StemOf(p[1]), StemOf(p[2])>> \in ancestors
                            /\ ~(Pushed(p[1]) /\ Pushed(p[2])
                                  /\ PosInOutput(p[2]) < PosInOutput(p[1]))}
        IN  (misplaced # {}) => ~Acyclic

\* without any deps.js file, a_m_v, a and a_m arrive and a, a_m, a_m_v are
\* pushed
C10_Witness ==
    /\ pc = "closed"
    /\ depsFiles = <<>>
    /\ Len(inputFiles) = 3
    /\ StemOf(1) = ModValAMV /\ StemOf(2) = BlockA /\ StemOf(3) = ModAM
    /\ output = <<2, 3, 1>>

\* what a run on these deps.js files and input files comes to
RunOutcome(deps, files) ==
    LET c == combineDeps(deps)
        r == OrderFiles(c.hashNodes, files)
    IN  IF c.error # NoError
        THEN [output |-> <<>>, thrown |-> c.error, emitted |-> NoError, closed |-> FALSE]
        ELSE [output |-> r.output, thrown |-> r.error, emitted |-> r.error, closed |-> r.closes]

(***************************************************************************)
(* C11.  Determinism: the outcome of an ended run (the files pushed, in    *)
(* their order, whether the stream was closed, the error thrown and the    *)
(* error emitted) is a function of the deps.js files and the input files   *)
(* in their orders of arrival, whatever the interleaving of the two        *)
(* streams' events was; a run whose deps stream failed pushes nothing.     *)
(***************************************************************************)
C11_Determinism ==
    Finished =>
        IF depsState = "errored"
        THEN output = <<>> /\ pc = "failed" /\ thrown = StreamError /\ emitted = NoError
        ELSE LET outcome == RunOutcome(depsFiles, inputFiles)
             IN  /\ output = outcome.output
                 /\ (pc = "closed") = outcome.closed
                 /\ thrown = outcome.thrown
                 /\ emitted = outcome.emitted

\* a run on two deps.js files and three input files that pushed one file
\* and then failed on an invalid stem
C11_Witness ==
    /\ pc = "failed"
    /\ Len(depsFiles) = 2
    /\ Len(inputFiles) = 3
    /\ Len(output) = 1
    /\ emitted.type = "InvalidNaming"

(***************************************************************************)
(* C12.  Declaration merging is a union: once combineDeps has run, the     *)
(* parents of a stem's node, the root aside, are the union of what the     *)
(* deps.js files of that stem name; the callback takes none of them away;  *)
(* and the edges the topological version collects from the same files are  *)
(* the same pairs.                                                         *)
(***************************************************************************)
C12_MergingIsUnion ==
    (combined = "resolved") =>
        LET declared == DeclaredEdges
        IN  /\ \A stem \in DepsStemSet :
                   LET declaredBy == {e[2] : e \in {f \in declared : f[1] = stem}}
                   IN  IF streamCtx
                       THEN declaredBy \subseteq hashNodes.parentNodes[stem]
                       ELSE hashNodes.parentNodes[stem] \ {Null} = declaredBy
            /\ Range(MergeDepsFrom(NewMerged, depsFiles, 1).merged.edges)
                   = {<<e[2], e[1]>> : e \in declared}

\* two deps.js files of stem a, the first naming b and c, the second c,
\* or the other way round, have been combined
C12_Witness ==
    /\ combined = "resolved"
    /\ ~streamCtx
    /\ Len(depsFiles) = 2
    /\ DepsStemSet = {BlockA}
    /\ Range(parseDependencies(depsFiles[1].contents)) # Range(parseDependencies(depsFiles[2].contents))
    /\ hashNodes.parentNodes[BlockA] = {Null, BlockB, BlockC}

\* a.deps.js has arrived and it is ({mustDeps: [clause]}), the clause a
\* leaf without tech and noDeps
HasSingleClause ==
    /\ depsFiles # <<>>
    /\ ~depsFiles[1].contents.throws
    /\ LET value == depsFiles[1].contents.value
       IN  /\ value.kind = "must" /\ ~value.tech /\ ~value.noDeps
           /\ value.mustDeps.kind = "array"
           /\ Len(value.mustDeps.items) = 1
           /\ value.mustDeps.items[1].kind = "leaf"
           /\ ~value.mustDeps.items[1].tech /\ ~value.mustDeps.items[1].noDeps

\* that clause
TheClause == depsFiles[1].contents.value.mustDeps.items[1]

\* what flattenDepsJS gives for the first deps.js file
Flattened == Range(flattenDepsJS(depsFiles[1].contents.value))

\* the dependencies recorded for a, once combineDeps has run
RecordedForA == hashNodes.parentNodes[BlockA] \ {Null}

\* b_n_v for each v of a list; b_n for a boolean; b_n_v and b_n for a scalar v
IdentifiersOfMods(block, mods) ==
    UNION {IF entry.vtype = "array"
           THEN {block \o <<"_">> \o entry.name \o <<"_">> \o v : v \in Range(entry.vals)}
           ELSE IF entry.vtype = "boolean"
           THEN {block \o <<"_">> \o entry.name}
           ELSE {block \o <<"_">> \o entry.name \o <<"_">> \o entry.val,
                 block \o <<"_">> \o entry.name} : entry \in Range(mods)}

(***************************************************************************)
(* C13.  Normalizer, modifier map: for a clause with a block and a mods    *)
(* object, flattenDepsJS gives, for each name n, b_n_v for each element v  *)
(* of a list, b_n for a boolean, b_n_v and b_n for another scalar v, and   *)
(* nothing else; these are the dependencies combineDeps records.           *)
(***************************************************************************)
C13_ModsObject ==
    (HasSingleClause /\ TheClause.modsType = "object" /\ TheClause.block # Undefined) =>
        /\ Flattened = IdentifiersOfMods(TheClause.block, TheClause.mods)
        /\ (combined = "resolved") =>
               RecordedForA = IdentifiersOfMods(TheClause.block, TheClause.mods)

\* {block: 'b', mods: {m: 'v', n: true}} has been combined
C13_Witness ==
    /\ HasSingleClause
    /\ TheClause.block = BlockB
    /\ TheClause.mods = <<ScalarEntry(<<"m">>, <<"v">>), BooleanEntry(<<"n">>)>>
    /\ combined = "resolved"
    /\ RecordedForA = {<<"b", "_", "m", "_", "v">>, <<"b", "_", "m">>, <<"b", "_", "n">>}

\* b_n for each name of a mods array, else b__e for each name of an elems array
IdentifiersOfLists(clause) ==
    IF clause.modsType = "array"
    THEN {clause.block \o <<"_">> \o n : n \in Range(clause.mods)}
    ELSE {clause.block \o <<"_", "_">> \o e : e \in Range(clause.elems)}

(***************************************************************************)
(* C14.  Normalizer, list parameterizations: for a clause with a block and *)
(* a mods array flattenDepsJS gives one identifier b_n per name, for a     *)
(* clause with a block, an elems array and no mods one identifier b__e per *)
(* element, and nothing else; combineDeps records them; and in the output  *)
(* of the run the file of the declaring stem comes after the file of every *)
(* input stem among them.                                                  *)
(***************************************************************************)
C14_Lists ==
    (/\ HasSingleClause
     /\ TheClause.block # Undefined
     /\ \/ TheClause.modsType = "array"
        \/ TheClause.elemsType = "array" /\ TheClause.modsType = "undefined") =>
        LET expected == IdentifiersOfLists(TheClause)
        IN  /\ Flattened = expected
            /\ Len(flattenDepsJS(depsFiles[1].contents.value)) = Cardinality(expected)
            /\ (combined = "resolved") => RecordedForA = expected
            /\ Finished =>
                   /\ pc = "closed"
                   /\ \A i, j \in 1..Len(inputFiles) :
                          (StemOf(i) = BlockA /\ StemOf(j) \in expected) =>
                              /\ DistinctStems => (Pushed(i) /\ Pushed(j))
                              /\ Pushed(i) =>
                                     \E k \in 1..Len(inputFiles) :
                                         /\ StemOf(k) = StemOf(j)
                                         /\ Pushed(k)
                                         /\ PosInOutput(k) < PosInOutput(i)
                              /\ (Pushed(i) /\ Pushed(j)) => PosInOutput(j) < PosInOutput(i)

\* a.deps.js is ({mustDeps: [{block: 'b', elems: ['e', 'f']}]}); a and b__e
\* arrive and b__e, a are pushed
C14_Witness ==
    /\ HasSingleClause
    /\ TheClause.block = BlockB
    /\ TheClause.elemsType = "array" /\ TheClause.modsType = "undefined"
    /\ TheClause.elems = <<<<"e">>, <<"f">>>>
    /\ pc = "closed"
    /\ Len(inputFiles) = 2
    /\ StemOf(1) = BlockA /\ StemOf(2) = ElemBE
    /\ output = <<2, 1>>

RECURSIVE ElemModsPieces(_, _)
\* _name, and _value unless the value is boolean, of the first i entries
ElemModsPieces(elemMods, i) ==
    IF i = 0 THEN <<>>
    ELSE ElemModsPieces(elemMods, i - 1) \o <<"_">> \o elemMods[i].name
             \o (IF elemMods[i].vtype = "boolean" THEN <<>> ELSE <<"_">> \o elemMods[i].val)

\* b, _mod, _val, __elem
PlainIdentifier(clause) ==
    clause.block
        \o (IF clause.mod # Undefined THEN <<"_">> \o clause.mod ELSE <<>>)
        \o (IF clause.val # Undefined THEN <<"_">> \o clause.val ELSE <<>>)
        \o <<"_", "_">> \o clause.elem

\* for each name of elemMods the identifier so far with _name, and the
\* identifier with everything
IdentifiersOfElemMods(clause) ==
    {PlainIdentifier(clause) \o ElemModsPieces(clause.elemMods, i - 1)
         \o <<"_">> \o clause.elemMods[i].name : i \in 1..Len(clause.elemMods)}
    \cup {PlainIdentifier(clause) \o ElemModsPieces(clause.elemMods, Len(clause.elemMods))}

(***************************************************************************)
(* C15.  Normalizer, element modifiers: for a clause with a block,         *)
(* optional mod and val, an elem and an elemMods object (no mods, no       *)
(* elems), flattenDepsJS gives the identifier b_mod_val__elem extended by  *)
(* _name and, unless the value is boolean, _value for every name in turn,  *)
(* and for every name the identifier as it is after its _name; nothing     *)
(* else; combineDeps records them.                                         *)
(***************************************************************************)
C15_ElemMods ==
    (/\ HasSingleClause
     /\ TheClause.block # Undefined
     /\ TheClause.modsType = "undefined" /\ TheClause.elemsType = "undefined"
     /\ TheClause.elem # Undefined
     /\ TheClause.elemModsType = "object") =>
        /\ Flattened = IdentifiersOfElemMods(TheClause)
        /\ (combined = "resolved") => RecordedForA = IdentifiersOfElemMods(TheClause)

\* {block: 'b', elem: 'e', elemMods: {m: 'v'}} has been combined and gave
\* b__e_m and b__e_m_v
C15_Witness ==
    /\ HasSingleClause
    /\ TheClause = [Leaf(BlockB) EXCEPT !.elem = <<"e">>, !.elemModsType = "object",
                                        !.elemMods = <<ScalarEntry(<<"m">>, <<"v">>)>>]
    /\ combined = "resolved"
    /\ RecordedForA = {<<"b", "_", "_", "e", "_", "m">>, <<"b", "_", "_", "e", "_", "m", "_", "v">>}

\* identifiers that are missing or empty
FalsyIdentifiers == {Undefined, Null, EmptyStr}

(***************************************************************************)
(* C16.  Normalizer, suppression and flattening: a clause marked tech or   *)
(* noDeps gives nothing, whatever is under it; nested mustDeps are         *)
(* flattened depth-first; and what parseDependencies returns holds every   *)
(* identifier flattenDepsJS gave once, the missing and empty ones left     *)
(* out; combineDeps records just these.                                    *)
(***************************************************************************)
C16_SuppressionAndFlattening ==
    (depsFiles # <<>>) =>
        LET contents == depsFiles[1].contents
            flat == flattenDepsJS(contents.value)
            parsed == parseDependencies(contents)
        IN  /\ \A i, j \in 1..Len(parsed) : parsed[i] = parsed[j] => i = j
            /\ Range(parsed) = Range(flat) \ FalsyIdentifiers
            /\ (combined = "resolved") => RecordedForA = Range(flat) \ FalsyIdentifiers
            /\ (contents = AllSuppressed) => flat = <<>>
            /\ (contents = SuppressedClauses) => flat = <<ElemBE>>
            /\ (contents = NestedClauses) =>
                   /\ flat = <<BlockB, ElemBE, ModBM, BlockB, ElemBE, EmptyStr>>
                   /\ parsed = <<BlockB, ElemBE, ModBM>>
            /\ (contents.value.kind = "must" /\ contents.value.mustDeps.kind = "array"
                    /\ Len(contents.value.mustDeps.items) = 1
                    /\ (contents.value.mustDeps.items[1].tech \/ contents.value.mustDeps.items[1].noDeps))
                   => flat = <<>>

\* the nest of clauses has been combined: b, b__e and b_m are recorded
C16_Witness ==
    /\ depsFiles # <<>>
    /\ depsFiles[1].contents = NestedClauses
    /\ combined = "resolved"
    /\ RecordedForA = {BlockB, ElemBE, ModBM}

(***************************************************************************)
(* C17.  Normalizer, malformed clause: a leaf clause without a block gives *)
(* no dependency, whatever else it holds, and the run does not fail.       *)
(***************************************************************************)
C17_MissingBlock ==
    (HasSingleClause /\ TheClause.block = Undefined) =>
        /\ parseDependencies(depsFiles[1].contents) = <<>>
        /\ (combined = "resolved") => RecordedForA = {}
        /\ pc \notin {"threw", "failed"}

(***************************************************************************)
(* C18.  Identifier round trip: for every valid stem known to the run,     *)
(* whatever facets it has, bemNamingToClassname of the parsed naming is    *)
(* the stem again.                                                         *)
(***************************************************************************)
C18_RoundTrip ==
    \A s \in KnownStems :
        ValidStem(s) => bemNamingToClassname(bemNamingParser(s)) = s

RECURSIVE AncestorChain(_)
\* the naming ancestors of a valid stem, nearest first, down to the block
AncestorChain(stem) ==
    IF NamingParents(stem) = {} THEN <<>>
    ELSE LET parent == CHOOSE y \in NamingParents(stem) : TRUE
         IN  <<parent>> \o AncestorChain(parent)

(***************************************************************************)
(* C19.  Ancestor-chain walk: for every valid stem the walk ends           *)
(* (addRecursiveNodeDependencies does not fill the stack), and the chain   *)
(* buildBasicDependencies returns drops one facet a step, element modifier *)
(* value first, modifier last, down to the block.                          *)
(***************************************************************************)
C19_AncestorChainWalk ==
    /\ thrown.type # "RangeError"
    /\ \A s \in KnownStems :
           ValidStem(s) =>
               buildBasicDependencies(s) = [error |-> NoError, output |-> AncestorChain(s)]

(***************************************************************************)
(* C20.  Implicit edges in the topological-sort version: when the run has  *)
(* closed, every stem of mergedNodes that is not block-only, be it an      *)
(* input file, a stem with a deps.js file or a stem that is only named as  *)
(* a dependency, has an edge from its naming ancestor; and when a file     *)
(* declares x__y, which is no input file, the file of x is pushed before   *)
(* it.                                                                     *)
(***************************************************************************)
C20_ImplicitEdges ==
    (pc = "closed") =>
        LET merged == MergeNodes(depsFiles, inputFiles).merged
        IN  /\ \A s \in Range(merged.order) :
                   \A p \in NamingParents(s) : <<p, s>> \in Range(merged.edges)
            /\ \A i, j \in 1..Len(inputFiles) :
                   (\E d \in NamedStemSet \ InputStemSet :
                        Declared(StemOf(i), d) /\ StemOf(j) \in NamingParents(d))
                       => PosInOutput(j) < PosInOutput(i)

(***************************************************************************)
(* C21.  Transpose invariant of the TreeNode graph: in every state, after  *)
(* whatever ensureExists, combineDeps and addTreeNodeDependency have       *)
(* inserted, node P is among the parent nodes of node N exactly when N is  *)
(* among the child nodes of P, the root included; and the two maps have    *)
(* the nodes of the hash table as their keys.                              *)
(***************************************************************************)
C21_Transpose ==
    LET nodes == Range(hashNodes.order)
    IN  /\ DOMAIN hashNodes.parentNodes = nodes
        /\ DOMAIN hashNodes.childNodes = nodes
        /\ \A N \in nodes : \A P \in hashNodes.parentNodes[N] :
               N \in Range(hashNodes.childNodes[P])
        /\ \A P \in nodes : \A N \in Range(hashNodes.childNodes[P]) :
               P \in hashNodes.parentNodes[N]

\* the callback has run: combineDeps made a__e a parent of b, and
\* addTreeNodeDependency gave a__e its ancestor a next to the root
C21_Witness ==
    /\ streamCtx
    /\ HashHas(hashNodes, ElemAE) /\ HashHas(hashNodes, BlockB)
    /\ hashNodes.parentNodes[ElemAE] = {Null, BlockA}
    /\ ElemAE \in hashNodes.parentNodes[BlockB]
    /\ ElemAE \in Range(hashNodes.childNodes[BlockA])
    /\ BlockB \in Range(hashNodes.childNodes[ElemAE])

\* the nodes of the hash table, the root aside
TreeStems == Range(hashNodes.order) \ {Null}

(***************************************************************************)
(* C22.  Virtual root linkage: every node of the TreeNode graph, and so    *)
(* every node without a declared or implied dependency, is a child of the  *)
(* root; when the run has closed, the block of every node is a node; and   *)
(* when the graph is acyclic every node has been marked visited by         *)
(* bfsOutputTree.                                                          *)
(***************************************************************************)
C22_RootLinkage ==
    /\ \A s \in TreeStems :
           /\ Null \in hashNodes.parentNodes[s]
           /\ s \in Range(hashNodes.childNodes[Null])
    /\ (pc = "closed") =>
           /\ \A s \in TreeStems : HashHas(hashNodes, bemNamingParser(s).block)
           /\ (visited # Range(hashNodes.order)) => ~Acyclic

\* a closed run on an acyclic graph: b names a__e, only a__e and b are
\* input files; a has become a node with the root as its only parent, and
\* every node was visited
C22_Witness ==
    /\ pc = "closed"
    /\ Acyclic
    /\ InputStemSet = {ElemAE, BlockB}
    /\ Declared(BlockB, ElemAE)
    /\ hashNodes.parentNodes[BlockA] = {Null}
    /\ visited = {Null, BlockA, BlockB, ElemAE}

\* the files the filter left for bfsOutputTree, and the loop's states
FilteredFiles == FilterFrom(combineDeps(depsFiles).hashNodes, inputFiles, 1, <<>>, <<>>)
BfsStates == BfsTrace(hashNodes, inputFiles, FilteredFiles.files, BfsStart(FilteredFiles.output))

\* the links of the graph
TreeLinks == UNION {{<<s, p>> : p \in hashNodes.parentNodes[s]} : s \in Range(hashNodes.order)}

(***************************************************************************)
(* C23.  BFS visiting rule and termination: in a closed run, every         *)
(* iteration of bfsOutputTree that marks a node marks one that was not     *)
(* marked and whose parent nodes are all marked; a file is pushed in that  *)
(* iteration only, and it is the node's file; nothing is ever unmarked;    *)
(* and the loop ends with an empty queue, after no more iterations than    *)
(* the graph has links, plus one, on cyclic graphs too.                    *)
(***************************************************************************)
C23_BfsVisiting ==
    (pc = "closed") =>
        LET filtered == FilteredFiles
            files == filtered.files
            states == BfsTrace(hashNodes, inputFiles, files, BfsStart(filtered.output))
            last == states[Len(states)]
        IN  /\ last.processingQueue = <<>>
            /\ last.visited = visited /\ last.output = output
            /\ Len(states) - 1 <= Cardinality(TreeLinks) + 1
            /\ \A k \in 1..(Len(states) - 1) :
                   LET before == states[k]
                       after == states[k + 1]
                       node == Head(before.processingQueue)
                       file == FilesHashGet(inputFiles, files, node)
                   IN  IF after.visited # before.visited
                       THEN /\ node \notin before.visited
                            /\ after.visited = before.visited \cup {node}
                            /\ hashNodes.parentNodes[node] \subseteq before.visited
                            /\ after.output = IF node # Null /\ file # 0
                                              THEN Append(before.output, file)
                                              ELSE before.output
                       ELSE after.output = before.output

\* a closed run on a cyclic graph: the loop ended after three iterations or
\* more, a file was pushed and some node was never marked
C23_Witness ==
    /\ pc = "closed"
    /\ ~Acyclic
    /\ Len(output) >= 1
    /\ visited # Range(hashNodes.order)
    /\ Len(BfsStates) >= 4

(***************************************************************************)
(* C24.  Validity of the first, Map-based version: when a run has closed   *)
(* on an acyclic graph, a file is pushed after the files of the input      *)
(* stems it depends on, also when a stem is at different distances from    *)
(* the root: with a naming b and c, b naming c, and the files a, b, c the  *)
(* output is c, b, a.                                                      *)
(***************************************************************************)
C24_MapValidity ==
    (pc = "closed" /\ output # <<>> /\ DistinctStems) =>
        LET edges == DependencyEdges
        IN  AcyclicIn(TransitiveClosure(edges)) =>
                /\ \A i, j \in 1..Len(inputFiles) :
                       (Pushed(i) /\ Pushed(j) /\ <<StemOf(i), StemOf(j)>> \in edges) =>
                           PosInOutput(j) < PosInOutput(i)
                /\ (/\ DeclaredEdges = {<<BlockA, BlockB>>, <<BlockA, BlockC>>, <<BlockB, BlockC>>}
                    /\ Len(inputFiles) = 3
                    /\ StemOf(1) = BlockA /\ StemOf(2) = BlockB /\ StemOf(3) = BlockC)
                       => output = <<3, 2, 1>>

\* the edges of the Map hashNodes holds in the first and the weight version
TreeEdges == UNION {{<<x, y>> : y \in Range(hashNodes.deps[x])} : x \in Range(hashNodes.order)}

\* the path ends in a cycle: from some stem of it on, each stem has the next
\* among its dependencies, and the last one has that stem
EndsInCycle(path, edges) ==
    /\ path # <<>>
    /\ \E i \in 1..Len(path) :
           /\ \A j \in i..(Len(path) - 1) : <<path[j], path[j + 1]>> \in edges
           /\ <<path[Len(path)], path[i]>> \in edges

(***************************************************************************)
(* C25.  Weight-based cycle detection: when the callback of the weight     *)
(* version has run on a tree with a cycle, it threw 'Circular dependency   *)
(* detected' with a path that holds all the stems of a cycle, nothing was  *)
(* closed, and calcRecursiveNodeWeight was never more than (number of      *)
(* stems of the graph + 1) calls deep, the stems of the graph being the    *)
(* keys of the tree and the stems they name.                               *)
(***************************************************************************)
C25_CycleDetection ==
    streamCtx =>
        LET edges == TreeEdges
        IN  ~AcyclicIn(TransitiveClosure(edges)) =>
                /\ pc \in {"threw", "failed"}
                /\ thrown.type = "CircularDependency"
                /\ EndsInCycle(thrown.stem, edges)
                /\ calcTreeNodesWeight(hashNodes).error = thrown
                /\ calcTreeNodesWeight(hashNodes).depth
                       <= Cardinality(Range(hashNodes.order) \cup {e[2] : e \in edges}) + 1

\* a names b, b names a__e, and a__e is an input file: the cycle closes
\* through the naming ancestor of a__e, and the path has its three stems
C25_Witness ==
    /\ pc = "failed"
    /\ streamCtx
    /\ emitted.type = "CircularDependency"
    /\ Range(emitted.stem) = {BlockA, BlockB, ElemAE}
    /\ calcTreeNodesWeight(hashNodes).depth = 4

\* the weight of a stem, 0 for a stem the tree does not hold
WeightIn(weights, stem) == IF stem \in DOMAIN weights THEN weights[stem] ELSE 0

(***************************************************************************)
(* C26.  Weight orderer on acyclic graphs: when the callback of the weight *)
(* version has run on a tree without a cycle, no circular dependency was   *)
(* reported and the run closed, also when a stem is reached along several  *)
(* paths; every stem of the tree has a weight greater than the weight of   *)
(* each of its dependencies; every file was pushed once, after the files   *)
(* of the stems its stem names or has as naming ancestor.                  *)
(***************************************************************************)
C26_WeightOrder ==
    streamCtx =>
        LET edges == TreeEdges
        IN  AcyclicIn(TransitiveClosure(edges)) =>
                LET treeNodesWeights == calcTreeNodesWeight(hashNodes)
                    direct == DependencyEdges
                IN  /\ pc = "closed"
                    /\ thrown = NoError
                    /\ treeNodesWeights.error = NoError
                    /\ DOMAIN treeNodesWeights.weights = Range(hashNodes.order)
                    /\ \A e \in edges :
                           treeNodesWeights.weights[e[1]] > WeightIn(treeNodesWeights.weights, e[2])
                    /\ \A i \in 1..Len(inputFiles) : TimesPushed(i) = 1
                    /\ \A i, j \in 1..Len(inputFiles) :
                           (<<StemOf(i), StemOf(j)>> \in direct) => PosInOutput(j) < PosInOutput(i)

\* a names b and c, b names c: c is reached along two paths; the files a,
\* b, c are pushed as c, b, a, and a has weight 3
C26_Witness ==
    /\ pc = "closed"
    /\ DeclaredEdges = {<<BlockA, BlockB>>, <<BlockA, BlockC>>, <<BlockB, BlockC>>}
    /\ Len(inputFiles) = 3
    /\ StemOf(1) = BlockA /\ StemOf(2) = BlockB /\ StemOf(3) = BlockC
    /\ output = <<3, 2, 1>>
    /\ calcTreeNodesWeight(hashNodes).weights[BlockA] = 3

(***************************************************************************)
(* The two orderers on one graph.                                          *)
(***************************************************************************)
\* the graph of hashNodes as the Map of the weight version: every stem but
\* the root is a key, its value the stems it has as parents, the root left
\* out
GraphAsTree ==
    LET stems == SelectSeq(hashNodes.order, LAMBDA s : s # Null)
    IN  [order |-> stems,
         deps |-> [s \in Range(stems) |->
                      SelectSeq(stems, LAMBDA p : p \in hashNodes.parentNodes[s])]]

\* no two of the files have one stem (such files are tied)
OneFilePerStem(files) ==
    \A m, n \in 1..Len(files) : StemOf(files[m]) = StemOf(files[n]) => m = n

\* of any two of the files one depends on the other: the files can be put
\* in one order only
OneLinearization(files, depends) ==
    \A m, n \in 1..Len(files) :
        m # n => \/ <<StemOf(files[m]), StemOf(files[n])>> \in depends
                 \/ <<StemOf(files[n]), StemOf(files[m])>> \in depends

\* C27: when the graph has no cycle and, of any two files handed to the
\* orderers, one depends on the other, sorting the files by the weights
\* calcTreeNodesWeight gives the stems of the graph yields the sequence
\* bfsOutputTree has pushed.
C27_StrategyEquivalence ==
    (pc = "closed" /\ Len(inputFiles) >= 2) =>
        LET filtered == FilteredFiles
        IN  OneFilePerStem(filtered.files) =>
                LET depends == Depends
                IN  (AcyclicIn(depends) /\ OneLinearization(filtered.files, depends)) =>
                        LET treeNodesWeights == calcTreeNodesWeight(GraphAsTree)
                        IN  /\ treeNodesWeights.error = NoError
                            /\ output = filtered.output
                                            \o SortByWeight(filtered.files,
                                                            treeNodesWeights.weights, inputFiles)

\* b names a__e, a names c, files b and a arrive: the only order is a, b
\* (b reaches a through a__e, which has no file), and both orderers give it
C27_Witness ==
    /\ pc = "closed"
    /\ Len(inputFiles) = 2
    /\ StemOf(1) = BlockB /\ StemOf(2) = BlockA
    /\ DeclaredEdges = {<<BlockB, ElemAE>>, <<BlockA, BlockC>>}
    /\ FilteredFiles.files = <<1, 2>>
    /\ OneLinearization(FilteredFiles.files, Depends)
    /\ output = <<2, 1>>
    /\ SortByWeight(<<1, 2>>, calcTreeNodesWeight(GraphAsTree).weights, inputFiles) = <<2, 1>>

(***************************************************************************)
(* The closing of the output stream.                                       *)
(***************************************************************************)
\* what a step may do to the output stream: closeStreamCallback is called
\* (pc becomes "closed") from the waiting state only, after the flush, and
\* by a step that raised no error; once it has been called, or once an
\* error has been raised or emitted, no file is pushed and the stream is
\* not closed (again)
ClosingStep ==
    /\ (pc # "closed" /\ pc' = "closed") =>
           /\ pc = "waiting" /\ flushed
           /\ thrown = NoError /\ thrown' = NoError
           /\ emitted' = NoError /\ uncaught' = NoError
    /\ pc = "closed" =>
           /\ pc' = "closed" /\ output' = output
           /\ thrown' = NoError /\ emitted' = NoError /\ uncaught' = NoError
    /\ (thrown # NoError \/ emitted # NoError) =>
           /\ pc' \in {"threw", "failed"}
           /\ output' = output
    /\ emitted' # emitted => (pc = "threw" /\ emitted = NoError /\ emitted' = thrown)

\* C28: closeStreamCallback is called at most once in a run, after the last
\* push and only when no error was raised; after an error has been emitted
\* on the output stream no file is pushed and the stream is not closed.
C28_ClosingProtocol == [][ClosingStep]_vars

\* file a is pushed by the filter, the stem of the next file is invalid:
\* the error is emitted, the output stays at the one file, the stream is
\* not closed
C28_Witness ==
    /\ pc = "failed"
    /\ emitted = InvalidNaming(InvalidStem)
    /\ Len(inputFiles) = 3
    /\ StemOf(1) = BlockA /\ StemOf(2) = InvalidStem /\ StemOf(3) = BlockA
    /\ output = <<1>>

(***************************************************************************)
(* Files of one stem.                                                      *)
(***************************************************************************)
\* C29: on a successful run every input file is pushed exactly once, also
\* when several files have one stem, so as many files leave as came in.
C29_StemCollision ==
    pc = "closed" =>
        /\ \A i \in 1..Len(inputFiles) : TimesPushed(i) = 1
        /\ Len(output) = Len(inputFiles)

(***************************************************************************)
(* The shape of the identifiers the normalizer produces.                   *)
(***************************************************************************)
\* a stem of the grammar base[_mod[_val]][__elem[_elemMod[_elemVal]]]: at
\* most one "__", on each side of it one to three names joined by "_"
GrammarStem(stem) ==
    LET halves == SplitDouble(stem, 1, <<>>, <<>>)
    IN  /\ Len(halves) \in {1, 2}
        /\ \A h \in 1..Len(halves) :
               LET parts == SplitSingle(halves[h], 1, <<>>, <<>>)
               IN  /\ Len(parts) \in 1..3
                   /\ \A k \in 1..Len(parts) : parts[k] # EmptyStr

\* C30: every identifier flattenDepsJS produces from a clause that has a
\* block, whatever other facets it names, is a stem of the naming grammar
\* and passes the naming validation of the graph nodes.
C30_WellFormedOutput ==
    (HasSingleClause /\ TheClause.block # Undefined) =>
        LET output_ == flattenDepsJS(depsFiles[1].contents.value)
        IN  \A k \in 1..Len(output_) :
                /\ GrammarStem(output_[k])
                /\ ~isBadNaming(bemNamingParser(output_[k]))
====
